---- MODULE Spec2Model ----
(***************************************************************************)
(* Stock-monitoring engine of Zack-Vision: the per-listing processing of   *)
(* StockScheduler._process_product (diff, cooldown, alert dispatch,        *)
(* product/history persistence) over the SQLite tables of Database, and    *)
(* the dead-letter queue with its retry manager.                           *)
(*                                                                         *)
(* Concurrency: _check_retailer gathers one _process_product coroutine per *)
(* listing, and force_check() may overlap a scheduled cycle, so several    *)
(* _process_product coroutines run interleaved.  Every `await` on the      *)
(* database or on the notification callback is a suspension point; the     *)
(* code between two awaits is one atomic step of the model.                *)
(***************************************************************************)
EXTENDS Integers, Sequences, FiniteSets, Bags, TLC

\* ------------------------------------------------------------------ bounds
MaxCalls == 2            \* _process_product invocations in one behaviour
MaxTasks == 2            \* _process_product coroutines alive at once
MaxTime  == 301          \* the clock stops advancing here
MaxBreakerCalls == 5     \* direct calls on one CircuitBreaker
MaxThreshold    == 3     \* largest failure_threshold tried
MaxBreakerTime  == 121   \* the clock of the breaker runs stops here
MaxRequestCalls == 2     \* _make_request invocations in one behaviour
MaxRequestTime  == 67    \* the clock of the request runs stops here
MaxFailed       == 2     \* rows added to failed_alerts in one behaviour
MaxDLQTime      == 1204  \* the clock of the retry runs stops here
MaxSaves        == 2     \* save_product calls in one behaviour
MaxStoreTime    == 2     \* the clock of the products-table runs stops here
MaxStarts       == 1     \* start() calls in one behaviour
MaxStops        == 1     \* stop() calls in one behaviour
MaxLifeTime     == 300   \* the clock of the start/stop runs stops here
MaxRestarts == 3   \* start() calls when start() is called repeatedly
MaxChecks == 3   \* _check_retailer coroutines on one scraper
MaxForce == 2     \* force_check() calls in one behaviour
MaxCleanupTime == 2592001   \* the clock of the cleanup runs stops here
MaxCleanupCalls == 1   \* _process_product invocations next to the cleanup
MaxAddErrors == 110   \* add_error calls in one behaviour

\* ------------------------------------------------------- program constants
ALERT_COOLDOWN == 300
max_retries    == 3      \* DeadLetterQueue(max_retries=3)
retry_delay_minutes == 5 \* DeadLetterQueue(retry_delay_minutes=5)
failure_threshold == 5   \* CircuitBreaker.failure_threshold default
recovery_timeout  == 60  \* CircuitBreaker.recovery_timeout default, seconds
RETRY_ATTEMPTS    == 3   \* HTTP attempts of one _make_request
RETRY_DELAY_BASE  == 2   \* base seconds of the exponential backoff
REQUEST_DELAY_MIN == 3   \* rate limit: shortest spacing, seconds
REQUEST_DELAY_MAX == 7   \* rate limit: longest spacing, seconds
max_errors        == 100 \* SchedulerStats.max_errors
recent_shown      == 10  \* to_dict: self.errors[-10:]
SecondsPerDay     == 86400   \* timedelta(days=1)
RetentionDays     == 30   \* cleanup_old_history(days=30)
CHECK_INTERVAL    == 120 \* seconds the monitoring loop sleeps between cycles
ERROR_RETRY_INTERVAL == 60   \* asyncio.sleep(60) after an error in the loop
NoResponse        == 0   \* the attempt ended in a timeout or transport error

NoPrice  == 0 - 1        \* price = None
NoTime   == 0 - 1        \* a datetime that is None
NoSession == 0 - 1       \* session = None
NoCount  == 0 - 1        \* no rowcount returned yet
NoStatus == 0 - 1        \* previous_status = None

\* AlertType enum values
IN_STOCK     == "in_stock"
OUT_OF_STOCK == "out_of_stock"
PRICE_CHANGE == "price_change"
NEW_PRODUCT  == "new_product"
AlertType    == {IN_STOCK, OUT_OF_STOCK, PRICE_CHANGE, NEW_PRODUCT}

\* ------------------------------------------------------------------ inputs
Pids      == {"A"}                      \* product ids seen by the scrapers
Prices    == {NoPrice, 1}               \* scraped prices (2 is a stored one)
Ticks     == {299, 300, 301}            \* seconds the clock may jump
Outcomes  == {"ok", "fail", "raise"}    \* alert_callback: True / False / exception
Thresholds       == 1..MaxThreshold     \* CircuitBreaker(failure_threshold=...)
RecoveryTimeouts == {0, recovery_timeout}   \* CircuitBreaker(recovery_timeout=...)
BreakerTicks     == {59, 60, 61}        \* seconds between calls on a breaker
Statuses         == {200, 429, 500, 404, NoResponse}   \* what an attempt gets
Delays           == {REQUEST_DELAY_MIN, REQUEST_DELAY_MAX}   \* random.uniform
Searches         == {"pokemon booster box", "one piece booster box"}
RetryTicks       == {300, 301}          \* seconds between two retry passes

VARIABLES
    now,            \* datetime.now(), in seconds
    products,       \* table products: id -> <<>> (no row) or <<row>>
    alerts,         \* table alerts, rowid = index
    stock_history,  \* table stock_history, rowid = index
    failed_alerts,  \* table failed_alerts (dead-letter queue), rowid = index
    alerts_sent,    \* SchedulerStats.alerts_sent
    tasks,          \* the _process_product coroutines in flight (a bag)
    ncalls,         \* _process_product invocations started so far
    notified        \* log of the notification callback's invocations

VARIABLES
    retried,        \* failed_alerts row ids the retry manager called back for
    breaker,        \* a scraper's CircuitBreaker
    breaker_calls,  \* log of the calls made on the breaker
    requests,       \* the _make_request coroutines in flight (a bag)
    last_request_time,  \* BaseScraper._last_request_time
    nrequests       \* _make_request invocations started so far

VARIABLES
    running,        \* StockScheduler.running
    monitoring_task,    \* StockScheduler._monitoring_task and its coroutine
    start_call,     \* where the call of start() stands
    stop_call,      \* where the call of stop() stands
    cycles,         \* the _check_all_retailers invocations, in starting order
    stats,          \* SchedulerStats: the counters of the check cycles
    retailers       \* RETAILERS: the configuration the process was started with

VARIABLES
    product_rows,   \* table products with all its columns (a set of rows)
    last_saved,     \* id -> <<>> or <<the Product last passed to save_product>>
    nsaves          \* save_product calls so far

VARIABLES
    errors,         \* SchedulerStats.errors, each entry the number of its add_error
    nerrors,        \* add_error calls so far
    orphans,        \* loop tasks still alive that _monitoring_task lost
    session,        \* BaseScraper.session of one scraper
    closed_sessions,    \* the ClientSession objects that were closed
    checks,         \* the _check_retailer coroutines on that scraper
    deleted         \* what the last cleanup_old_history returned

\* The state of the components that have a specification of their own.
others == <<errors, nerrors, orphans, session, closed_sessions, checks, deleted>>

\* The state owned by one scraper.
scraper == <<breaker, breaker_calls, requests, last_request_time, nrequests>>

\* The state of the scheduler's start/stop machinery and of its cycles.
lifecycle == <<running, monitoring_task, start_call, stop_call, cycles, stats,
               retailers>>

\* The products table seen through save_product and get_product alone.
store == <<product_rows, last_saved, nsaves>>

vars == <<now, products, alerts, stock_history, failed_alerts, alerts_sent,
          tasks, ncalls, notified, retried, others, scraper, lifecycle, store>>

\* ----------------------------------------------------------------- helpers
Max(S) == CHOOSE x \in S : \A y \in S : y <= x

\* 1 for True, 0 for False: int(bool) of the INSERT statements.
BoolInt(b) == IF b THEN 1 ELSE 0

\* Product dataclass: the fields the diff reads.  name, retailer, url and the
\* other descriptive columns are fixed per id; last_checked, last_in_stock
\* and created_at are written but never read by the engine.
Product(id, in_stock, price) ==
    [id |-> id, in_stock |-> in_stock, price |-> price]

\* StockAlert dataclass (sent defaults to False).
StockAlert(product, alert_type, timestamp, previous_status, previous_price) ==
    [product_id |-> product.id, alert_type |-> alert_type,
     timestamp |-> timestamp, previous_status |-> previous_status,
     previous_price |-> previous_price, sent |-> FALSE]

\* One row of stock_history.
HistoryRow(product, timestamp) ==
    [product_id |-> product.id, in_stock |-> product.in_stock,
     price |-> product.price, timestamp |-> timestamp]

\* One entry of the callback log: who was notified of what, when, how it
\* ended, and whether the scheduler ("dispatch") or the retry manager
\* ("retry") made the call.
Notification(product_id, alert_type, time, outcome, by) ==
    [product_id |-> product_id, alert_type |-> alert_type, time |-> time,
     outcome |-> outcome, by |-> by]

\* ---------------------------------------------------------------- Database
\* Database.get_product: <<>> for None, <<row>> for the Product.
get_product(product_id) == products[product_id]

\* A plausible slip: the old row is deleted and the new one never inserted.
save_product_delete(product) == [products EXCEPT ![product.id] = <<>>]

\* Database.save_product: INSERT OR REPLACE keyed by id.
save_product(product) == [products EXCEPT ![product.id] = <<product>>]

\* Database.save_stock_history: one appended row stamped datetime.now().
save_stock_history(product) ==
    Append(stock_history, HistoryRow(product, now))

\* Database.save_alert: the appended table; lastrowid is its length.
save_alert(alert) == Append(alerts, alert)

\* Database.mark_alert_sent: UPDATE alerts SET sent = 1 WHERE id = ?
mark_alert_sent(alert_id) ==
    [i \in DOMAIN alerts |->
        IF i = alert_id THEN [alerts[i] EXCEPT !.sent = TRUE] ELSE alerts[i]]

\* Database.get_last_alert_time: newest timestamp among the product's alerts
\* of the given type (ORDER BY timestamp DESC LIMIT 1), NoTime if none.
get_last_alert_time(product_id, alert_type) ==
    LET ts == {alerts[i].timestamp : i \in
                  {j \in DOMAIN alerts : /\ alerts[j].product_id = product_id
                                         /\ alerts[j].alert_type = alert_type}}
    IN  IF ts = {} THEN NoTime ELSE Max(ts)

\* A plausible slip: cooldown already over at exactly cooldown_seconds.
should_send_alert_ge(product_id, cooldown_seconds) ==
    LET last_alert == get_last_alert_time(product_id, IN_STOCK)
    IN  IF last_alert = NoTime THEN TRUE
        ELSE (now - last_alert) >= cooldown_seconds

\* Database.should_send_alert: get_last_alert_time is called with its default
\* alert_type, AlertType.IN_STOCK.
should_send_alert(product_id, cooldown_seconds) ==
    LET last_alert == get_last_alert_time(product_id, IN_STOCK)
    IN  IF last_alert = NoTime THEN TRUE
        ELSE (now - last_alert) > cooldown_seconds

\* --------------------------------------------------------- DeadLetterQueue
\* One row of failed_alerts (error_message is free text).
FailedAlert(product_id, alert_type, timestamp) ==
    [product_id |-> product_id, alert_type |-> alert_type,
     timestamp |-> timestamp, retry_count |-> 0, last_retry |-> NoTime,
     resolved |-> FALSE]

\* DeadLetterQueue.add_failed_alert: INSERT with the column defaults
\* retry_count 0, last_retry NULL, resolved 0.
add_failed_alert(alert) ==
    Append(failed_alerts, FailedAlert(alert.product_id, alert.alert_type, now))

\* A plausible slip: the retry is counted but not stamped.
increment_retry_unstamped(row) == [row EXCEPT !.retry_count = @ + 1]

\* DeadLetterQueue.increment_retry
increment_retry(row) ==
    [row EXCEPT !.retry_count = @ + 1, !.last_retry = now]

\* DeadLetterQueue.mark_resolved
mark_resolved(row) == [row EXCEPT !.resolved = TRUE]

\* A plausible slip: rows at the ceiling are still selected.
Retryable_le ==
    {i \in DOMAIN failed_alerts :
        /\ ~failed_alerts[i].resolved
        /\ failed_alerts[i].retry_count <= max_retries
        /\ \/ failed_alerts[i].last_retry = NoTime
           \/ failed_alerts[i].last_retry < now - retry_delay_minutes * 60}

\* A plausible slip: no ceiling in the selection.
Retryable_no_ceiling ==
    {i \in DOMAIN failed_alerts :
        /\ ~failed_alerts[i].resolved
        /\ \/ failed_alerts[i].last_retry = NoTime
           \/ failed_alerts[i].last_retry < now - retry_delay_minutes * 60}

\* The WHERE clause of DeadLetterQueue.get_retryable_alerts.
Retryable ==
    {i \in DOMAIN failed_alerts :
        /\ ~failed_alerts[i].resolved
        /\ failed_alerts[i].retry_count < max_retries
        /\ \/ failed_alerts[i].last_retry = NoTime
           \/ failed_alerts[i].last_retry < now - retry_delay_minutes * 60}

\* ORDER BY timestamp ASC (rowid breaks ties) over a set of row ids.
RECURSIVE OrderByTimestamp(_)
OrderByTimestamp(ids) ==
    IF ids = {} THEN <<>>
    ELSE LET first == CHOOSE i \in ids : \A j \in ids :
                        \/ failed_alerts[i].timestamp < failed_alerts[j].timestamp
                        \/ /\ failed_alerts[i].timestamp = failed_alerts[j].timestamp
                           /\ i <= j
         IN  <<first>> \o OrderByTimestamp(ids \ {first})

\* DeadLetterQueue.get_retryable_alerts: the row ids, oldest first.
get_retryable_alerts == OrderByTimestamp(Retryable)

\* A plausible slip: a retry is held back while the product's alert
\* cooldown is running.
RECURSIVE WithProduct_cooldown(_)
WithProduct_cooldown(ids) ==
    IF ids = <<>> THEN <<>>
    ELSE (IF \/ products[failed_alerts[Head(ids)].product_id] = <<>>
             \/ ~should_send_alert(failed_alerts[Head(ids)].product_id,
                                   ALERT_COOLDOWN)
          THEN <<>> ELSE <<Head(ids)>>) \o WithProduct_cooldown(Tail(ids))

\* SelectSeq over row ids: those whose product still exists.
RECURSIVE WithProduct(_)
WithProduct(ids) ==
    IF ids = <<>> THEN <<>>
    ELSE (IF products[failed_alerts[Head(ids)].product_id] = <<>>
          THEN <<>> ELSE <<Head(ids)>>) \o WithProduct(Tail(ids))

\* ---------------------------------------------------------- CircuitBreaker
\* CircuitState enum values
CLOSED    == "closed"
OPEN      == "open"
HALF_OPEN == "half_open"

\* CircuitBreaker dataclass after __post_init__.
CircuitBreaker(threshold, timeout) ==
    [failure_threshold |-> threshold, recovery_timeout |-> timeout,
     failures |-> 0, last_failure_time |-> NoTime, state |-> CLOSED]

\* A plausible slip: only the counter is reset.
record_success_failures_only(cb) == [cb EXCEPT !.failures = 0]

\* CircuitBreaker.record_success
record_success(cb) == [cb EXCEPT !.failures = 0, !.state = CLOSED]

\* A plausible slip: the circuit opens only above the threshold.
record_failure_gt(cb) ==
    [cb EXCEPT !.failures = @ + 1,
               !.last_failure_time = now,
               !.state = IF cb.failures + 1 > cb.failure_threshold
                         THEN OPEN ELSE @]

\* CircuitBreaker.record_failure: the breaker afterwards.
record_failure(cb) ==
    [cb EXCEPT !.failures = @ + 1,
               !.last_failure_time = now,
               !.state = IF cb.failures + 1 >= cb.failure_threshold
                         THEN OPEN ELSE @]

\* A plausible slip: an OPEN breaker lets the call through at any time.
can_execute_no_wait(cb) ==
    IF cb.state = OPEN
    THEN [result |-> TRUE, breaker |-> [cb EXCEPT !.state = HALF_OPEN]]
    ELSE [result |-> TRUE, breaker |-> cb]

\* A plausible slip: recovery only after more than recovery_timeout.
can_execute_gt(cb) ==
    IF cb.state = CLOSED THEN [result |-> TRUE, breaker |-> cb]
    ELSE IF cb.state = OPEN
         THEN IF /\ cb.last_failure_time # NoTime
                 /\ now - cb.last_failure_time > cb.recovery_timeout
              THEN [result |-> TRUE, breaker |-> [cb EXCEPT !.state = HALF_OPEN]]
              ELSE [result |-> FALSE, breaker |-> cb]
    ELSE [result |-> TRUE, breaker |-> cb]

\* CircuitBreaker.can_execute: the returned bool and the breaker afterwards.
can_execute(cb) ==
    IF cb.state = CLOSED THEN [result |-> TRUE, breaker |-> cb]
    ELSE IF cb.state = OPEN
         THEN IF /\ cb.last_failure_time # NoTime
                 /\ now - cb.last_failure_time >= cb.recovery_timeout
              THEN [result |-> TRUE, breaker |-> [cb EXCEPT !.state = HALF_OPEN]]
              ELSE [result |-> FALSE, breaker |-> cb]
    ELSE [result |-> TRUE, breaker |-> cb]

\* One entry of the breaker's call log: the method, what it returned, the
\* state it found and the request that made the call (0: a direct call).
BreakerCall(op, result, before, by) ==
    [op |-> op, result |-> result, before |-> before, by |-> by]

\* BaseScraper.__init__: a default breaker, no request made yet.
ScraperIdle ==
    /\ breaker = CircuitBreaker(failure_threshold, recovery_timeout)
    /\ breaker_calls = <<>>
    /\ requests = EmptyBag
    /\ last_request_time = NoTime
    /\ nrequests = 0

\* ------------------------------------------- StockScheduler: start and stop
\* The retailers of RETAILERS, in the order of the dict (two of the five).
RetailerKeys == <<"eb_games", "jb_hifi">>

Retailers == {RetailerKeys[i] : i \in DOMAIN RetailerKeys}

\* config.enabled of one entry of RETAILERS.
Enabled  == "enabled"
Disabled == "disabled"

\* The configurations a process may be started with.
RetailerConfigs == [Retailers -> {Enabled, Disabled}]

\* asyncio.Task of _monitoring_loop.  pc: none (no task created), created
\* (not run yet), sleep (asyncio.sleep(CHECK_INTERVAL)), cycle (awaiting
\* _check_all_retailers), error_sleep (asyncio.sleep(60)), done.  wake: when
\* its sleep ends.  cancelling: cancel() was called and the CancelledError is
\* still to be delivered.
NoTask == [pc |-> "none", wake |-> 0, cancelling |-> FALSE]

\* A call of start() or stop(): where it stands, and how many were made.
NoCall == [pc |-> "idle", calls |-> 0]

\* SchedulerStats() as constructed; errors is the length of the list.
NoStats ==
    [total_checks |-> 0, successful_checks |-> 0, failed_checks |-> 0,
     errors |-> 0]

\* StockScheduler.__init__: not running, no task, nothing counted.
LifecycleIdle ==
    /\ running = FALSE
    /\ monitoring_task = NoTask
    /\ start_call = NoCall
    /\ stop_call = NoCall
    /\ cycles = <<>>
    /\ stats = NoStats
    /\ retailers = [r \in Retailers |-> Enabled]

\* CREATE TABLE IF NOT EXISTS products on a new file: no row.
\* SchedulerStats() with no error recorded, one loop task at most, a scraper
\* that was never entered, no cleanup yet.
OthersIdle ==
    /\ errors = <<>>
    /\ nerrors = 0
    /\ orphans = {}
    /\ session = NoSession
    /\ closed_sessions = {}
    /\ checks = <<>>
    /\ deleted = NoCount

StoreIdle ==
    /\ product_rows = {}
    /\ last_saved = [id \in {"A", "B"} |-> <<>>]
    /\ nsaves = 0

\* -------------------------------------------------- StockScheduler: tasks
\* A coroutine's frame.  product: the listing being processed; previous: the
\* result of get_product; alert: the StockAlert under construction; alert_id:
\* lastrowid of save_alert; outcome: what alert_callback did; emitted: the
\* alerts this invocation saved.
IdleTask ==
    [pc |-> "start", product |-> <<>>, previous |-> <<>>, alert |-> <<>>,
     alert_id |-> 0, outcome |-> "none", emitted |-> <<>>]

\* done: the coroutine ran to its end; suppressed: it returned on the
\* cooldown; failed: its except clause logged an exception and it returned;
\* raised: an exception left the coroutine.
Terminal == {"done", "suppressed", "failed", "raised"}

\* A plausible slip: the exception is logged and raised again.
Caught_reraise(t) == [t EXCEPT !.pc = "raised"]

\* except Exception as e: logger.error(...) at the foot of _process_product.
Caught(t) == [t EXCEPT !.pc = "failed"]

\* A plausible slip: the price comparison tested before the restock test.
StockChange_price_first(product, previous) ==
    IF previous = <<>> THEN "new"
    ELSE IF product.price # previous[1].price /\ product.price # NoPrice
         THEN "price"
    ELSE IF product.in_stock /\ ~previous[1].in_stock THEN "restock"
    ELSE "none"

\* The if / elif / else cascade of _process_product.
StockChange(product, previous) ==
    IF previous = <<>> THEN "new"
    ELSE IF product.in_stock /\ ~previous[1].in_stock THEN "restock"
    ELSE IF product.price # previous[1].price /\ product.price # NoPrice
         THEN "price"
    ELSE "none"

\* The SQLite file outlives the process, so a run starts on the tables an
\* earlier run left behind.  EarlierRuns lists such tables for product "A",
\* every row stamped at time 0: nothing stored; "A" first seen out of stock
\* at price 2; "A" first seen in stock at price 2; "A" seen out of stock,
\* then restocked (IN_STOCK alert saved, delivered and marked sent), then
\* seen out of stock again.
NoProducts == [id \in Pids |-> <<>>]

EarlierRuns ==
    {[products |-> NoProducts, alerts |-> <<>>, stock_history |-> <<>>,
      notified |-> <<>>]}
    \cup
    {[products |-> [NoProducts EXCEPT !["A"] = <<Product("A", in_stock, 2)>>],
      alerts |-> <<>>,
      stock_history |-> <<HistoryRow(Product("A", in_stock, 2), 0)>>,
      notified |-> <<>>] : in_stock \in BOOLEAN}
    \cup
    {[products |-> [NoProducts EXCEPT !["A"] = <<Product("A", FALSE, 2)>>],
      alerts |-> <<[StockAlert(Product("A", TRUE, 2), IN_STOCK, 0, 0, NoPrice)
                        EXCEPT !.sent = TRUE]>>,
      stock_history |-> <<HistoryRow(Product("A", FALSE, 2), 0),
                          HistoryRow(Product("A", TRUE, 2), 0),
                          HistoryRow(Product("A", FALSE, 2), 0)>>,
      notified |-> <<Notification("A", IN_STOCK, 0, "ok", "dispatch")>>]}

Init ==
    /\ now = 0
    /\ \E db \in EarlierRuns :
            /\ products = db.products
            /\ alerts = db.alerts
            /\ stock_history = db.stock_history
            /\ notified = db.notified
    /\ failed_alerts = <<>>
    /\ alerts_sent = 0
    /\ tasks = EmptyBag
    /\ ncalls = 0
    /\ retried = <<>>
    /\ ScraperIdle
    /\ LifecycleIdle
    /\ StoreIdle
    /\ OthersIdle

\* The coroutines in flight, and the bag with frame t replaced by frame u.
Tasks == BagToSet(tasks)

Becomes(t, u) == (tasks (-) SetToBag({t})) (+) SetToBag({u})

\* No coroutine is at its return: a return is not a suspension point, so it
\* completes before anything else runs.
NoneReturning == \A t \in Tasks : t.pc \notin Terminal

\* _check_retailer hands one scraped listing to _process_product, and the
\* coroutine's first await is served:
\*     previous = await self.db.get_product(product.id)
\* followed by the if / elif / else up to the next await.  (Creating the
\* coroutine touches nothing shared, so it is one step with the read.)
GetProduct(id, in_stock, price) ==
    /\ NoneReturning
    /\ BagCardinality(tasks) < MaxTasks
    /\ ncalls < MaxCalls
    /\ ncalls' = ncalls + 1
    /\ LET product  == Product(id, in_stock, price)
           previous == get_product(product.id)
           change   == StockChange(product, previous)
           task     == [IdleTask EXCEPT !.product = <<product>>,
                                        !.previous = previous]
       IN  tasks' = tasks (+) SetToBag({
             CASE change = "restock" ->
                    [task EXCEPT !.pc = "should_send_alert"]
               [] change = "price" ->
                    [task EXCEPT !.pc = "save_alert",
                                 !.alert = <<StockAlert(product, PRICE_CHANGE, now,
                                                NoStatus, previous[1].price)>>]
               [] OTHER ->
                    [task EXCEPT !.pc = "save_product"]})
    /\ UNCHANGED <<now, products, alerts, stock_history, failed_alerts,
                   alerts_sent, notified>>
    /\ UNCHANGED <<retried, others, scraper, lifecycle, store>>

\* if not await self.db.should_send_alert(product.id, ALERT_COOLDOWN): return
\* otherwise build the IN_STOCK alert.
ShouldSendAlert(t) ==
    /\ NoneReturning
    /\ t.pc = "should_send_alert"
    /\ tasks' = Becomes(t,
            IF ~should_send_alert(t.product[1].id, ALERT_COOLDOWN)
            THEN [t EXCEPT !.pc = "suppressed"]
            ELSE [t EXCEPT !.pc = "save_alert",
                           !.alert = <<StockAlert(t.product[1], IN_STOCK, now,
                                            BoolInt(t.previous[1].in_stock),
                                            NoPrice)>>])
    /\ UNCHANGED <<now, products, alerts, stock_history, failed_alerts,
                   alerts_sent, ncalls, notified>>
    /\ UNCHANGED <<retried, others, scraper, lifecycle, store>>

\* alert_id = await self.db.save_alert(alert)   (IN_STOCK), or
\* await self.db.save_alert(alert)              (PRICE_CHANGE, id dropped).
SaveAlert(t) ==
    /\ NoneReturning
    /\ t.pc = "save_alert"
    /\ alerts' = save_alert(t.alert[1])
    /\ tasks' = Becomes(t,
            [t EXCEPT !.emitted = Append(@, [alert_type |-> t.alert[1].alert_type,
                                    previous_price |-> t.alert[1].previous_price]),
                      !.alert_id = IF t.alert[1].alert_type = IN_STOCK
                                   THEN Len(alerts') ELSE 0,
                      !.pc = IF t.alert[1].alert_type = IN_STOCK
                             THEN "send_alert" ELSE "save_product"])
    /\ UNCHANGED <<now, products, stock_history, failed_alerts, alerts_sent,
                   ncalls, notified>>
    /\ UNCHANGED <<retried, others, scraper, lifecycle, store>>

\* await self._send_alert(alert): the callback is awaited; a False result or
\* an exception is counted in the metrics and logged, nothing more.
SendAlert(t, outcome) ==
    /\ NoneReturning
    /\ t.pc = "send_alert"
    /\ notified' = Append(notified,
            Notification(t.alert[1].product_id, t.alert[1].alert_type, now,
                         outcome, "dispatch"))
    /\ tasks' = Becomes(t, [t EXCEPT !.outcome = outcome,
                                     !.pc = "mark_alert_sent"])
    /\ UNCHANGED <<now, products, alerts, stock_history, failed_alerts,
                   alerts_sent, ncalls>>
    /\ UNCHANGED <<retried, others, scraper, lifecycle, store>>

\* await self.db.mark_alert_sent(alert_id); self._stats.alerts_sent += 1
MarkAlertSent(t) ==
    /\ NoneReturning
    /\ t.pc = "mark_alert_sent"
    /\ alerts' = mark_alert_sent(t.alert_id)
    /\ alerts_sent' = alerts_sent + 1
    /\ tasks' = Becomes(t, [t EXCEPT !.pc = "save_product"])
    /\ UNCHANGED <<now, products, stock_history, failed_alerts, ncalls, notified>>
    /\ UNCHANGED <<retried, others, scraper, lifecycle, store>>

\* await self.db.save_product(product)
SaveProduct(t) ==
    /\ NoneReturning
    /\ t.pc = "save_product"
    /\ products' = save_product(t.product[1])
    /\ tasks' = Becomes(t, [t EXCEPT !.pc = "save_stock_history"])
    /\ UNCHANGED <<now, alerts, stock_history, failed_alerts, alerts_sent,
                   ncalls, notified>>
    /\ UNCHANGED <<retried, others, scraper, lifecycle, store>>

\* await self.db.save_stock_history(product); the coroutine returns.
SaveStockHistory(t) ==
    /\ NoneReturning
    /\ t.pc = "save_stock_history"
    /\ stock_history' = save_stock_history(t.product[1])
    /\ tasks' = Becomes(t, [t EXCEPT !.pc = "done"])
    /\ UNCHANGED <<now, products, alerts, failed_alerts, alerts_sent, ncalls,
                   notified>>
    /\ UNCHANGED <<retried, others, scraper, lifecycle, store>>

\* The coroutine has returned: gather() collects it.
Return(t) ==
    /\ t.pc \in Terminal
    /\ tasks' = tasks (-) SetToBag({t})
    /\ UNCHANGED <<now, products, alerts, stock_history, failed_alerts,
                   alerts_sent, ncalls, notified>>
    /\ UNCHANGED <<retried, others, scraper, lifecycle, store>>

\* Wall-clock time passes between the checks of one listing and the next:
\* the database calls of one _process_product take milliseconds, the clock
\* of the model moves in steps of about ALERT_COOLDOWN.
Tick(d) ==
    /\ tasks = EmptyBag
    /\ now + d <= MaxTime
    /\ now' = now + d
    /\ UNCHANGED <<products, alerts, stock_history, failed_alerts, alerts_sent,
                   tasks, ncalls, notified>>
    /\ UNCHANGED <<retried, others, scraper, lifecycle, store>>

\* AlertRetryManager._process_retries, one pass: a row whose product is gone
\* is marked resolved; otherwise send_callback is awaited and the row is
\* marked resolved on True, and gets increment_retry on False or on an
\* exception.  outs gives the callback's outcome for each retryable row.
ProcessRetries(outs) ==
    LET retryable == get_retryable_alerts
        called    == WithProduct(retryable)
    IN  /\ NoneReturning
        /\ failed_alerts' = [i \in DOMAIN failed_alerts |->
                IF i \notin Retryable THEN failed_alerts[i]
                ELSE IF products[failed_alerts[i].product_id] = <<>>
                     THEN mark_resolved(failed_alerts[i])
                ELSE IF outs[i] = "ok" THEN mark_resolved(failed_alerts[i])
                ELSE increment_retry(failed_alerts[i])]
        /\ notified' = notified \o [k \in 1..Len(called) |->
                Notification(failed_alerts[called[k]].product_id,
                             failed_alerts[called[k]].alert_type, now,
                             outs[called[k]], "retry")]
        /\ retried' = retried \o called
        /\ UNCHANGED <<now, products, alerts, stock_history, alerts_sent,
                       tasks, ncalls, others, scraper, lifecycle, store>>

Next ==
    \/ \E t \in Tasks : Return(t)
    \/ \E id \in Pids, in_stock \in BOOLEAN, price \in Prices :
            GetProduct(id, in_stock, price)
    \/ \E t \in Tasks : ShouldSendAlert(t)
    \/ \E t \in Tasks : SaveAlert(t)
    \/ \E t \in Tasks, outcome \in Outcomes : SendAlert(t, outcome)
    \/ \E t \in Tasks : MarkAlertSent(t)
    \/ \E t \in Tasks : SaveProduct(t)
    \/ \E t \in Tasks : SaveStockHistory(t)
    \/ \E outs \in [Retryable -> Outcomes] : ProcessRetries(outs)
    \/ \E d \in Ticks : Tick(d)

Spec == Init /\ [][Next]_vars

\* ------------------------------------------- _process_product, storage down
\* The same coroutines on a database whose calls may raise (sqlite3.Error:
\* locked file, full disk): every await on self.db is a place where the
\* except clause of _process_product may be entered.

\* The frames suspended in an await on the database.
AwaitsStorage ==
    {"should_send_alert", "save_alert", "mark_alert_sent", "save_product",
     "save_stock_history"}

\* await self.db.get_product(product.id) raises in a fresh coroutine.
GetProductError(id, in_stock, price) ==
    /\ NoneReturning
    /\ BagCardinality(tasks) < MaxTasks
    /\ ncalls < MaxCalls
    /\ ncalls' = ncalls + 1
    /\ tasks' = tasks (+) SetToBag({
            Caught([IdleTask EXCEPT !.product = <<Product(id, in_stock, price)>>])})
    /\ UNCHANGED <<now, products, alerts, stock_history, failed_alerts,
                   alerts_sent, notified>>
    /\ UNCHANGED <<retried, others, scraper, lifecycle, store>>

\* The database call a coroutine is suspended in raises.
StorageError(t) ==
    /\ NoneReturning
    /\ t.pc \in AwaitsStorage
    /\ tasks' = Becomes(t, Caught(t))
    /\ UNCHANGED <<now, products, alerts, stock_history, failed_alerts,
                   alerts_sent, ncalls, notified>>
    /\ UNCHANGED <<retried, others, scraper, lifecycle, store>>

\* A run on the tables an earlier run left with "A" out of stock: a listing
\* of "A" in stock takes the longest path, through every database call.
InitStorage ==
    /\ Init
    /\ products["A"] = <<Product("A", FALSE, 2)>>
    /\ alerts = <<>>

NextStorage ==
    \/ \E t \in Tasks : Return(t)
    \/ \E id \in Pids, in_stock \in BOOLEAN, price \in Prices :
            GetProduct(id, in_stock, price)
    \/ \E id \in Pids, in_stock \in BOOLEAN, price \in Prices :
            GetProductError(id, in_stock, price)
    \/ \E t \in Tasks : ShouldSendAlert(t)
    \/ \E t \in Tasks : SaveAlert(t)
    \/ \E t \in Tasks, outcome \in Outcomes : SendAlert(t, outcome)
    \/ \E t \in Tasks : MarkAlertSent(t)
    \/ \E t \in Tasks : SaveProduct(t)
    \/ \E t \in Tasks : SaveStockHistory(t)
    \/ \E t \in Tasks : StorageError(t)

SpecStorage == InitStorage /\ [][NextStorage]_vars

\* ------------------------------------------- CircuitBreaker used directly
\* The scheduler's state when only a scraper component is exercised.
scheduler == <<products, alerts, stock_history, failed_alerts, alerts_sent,
               tasks, ncalls, notified>>

SchedulerIdle ==
    /\ products = NoProducts
    /\ alerts = <<>>
    /\ stock_history = <<>>
    /\ failed_alerts = <<>>
    /\ alerts_sent = 0
    /\ tasks = EmptyBag
    /\ ncalls = 0
    /\ notified = <<>>

\* A fresh CircuitBreaker(failure_threshold, recovery_timeout).
InitBreaker ==
    /\ now = 0
    /\ SchedulerIdle
    /\ LifecycleIdle
    /\ StoreIdle
    /\ OthersIdle
    /\ retried = <<>>
    /\ \E threshold \in Thresholds, timeout \in RecoveryTimeouts :
            breaker = CircuitBreaker(threshold, timeout)
    /\ breaker_calls = <<>>
    /\ requests = EmptyBag
    /\ last_request_time = NoTime
    /\ nrequests = 0

\* breaker.record_failure()
RecordFailure ==
    /\ Len(breaker_calls) < MaxBreakerCalls
    /\ breaker' = record_failure(breaker)
    /\ breaker_calls' = Append(breaker_calls,
            BreakerCall("record_failure",
                        breaker.failures + 1 >= breaker.failure_threshold,
                        breaker.state, 0))
    /\ UNCHANGED <<now, scheduler, retried, others, lifecycle, store, requests, last_request_time,
                   nrequests>>

\* breaker.record_success()
RecordSuccess ==
    /\ Len(breaker_calls) < MaxBreakerCalls
    /\ breaker' = record_success(breaker)
    /\ breaker_calls' = Append(breaker_calls,
            BreakerCall("record_success", TRUE, breaker.state, 0))
    /\ UNCHANGED <<now, scheduler, retried, others, lifecycle, store, requests, last_request_time,
                   nrequests>>

\* breaker.can_execute()
CanExecute ==
    /\ Len(breaker_calls) < MaxBreakerCalls
    /\ breaker' = can_execute(breaker).breaker
    /\ breaker_calls' = Append(breaker_calls,
            BreakerCall("can_execute", can_execute(breaker).result,
                        breaker.state, 0))
    /\ UNCHANGED <<now, scheduler, retried, others, lifecycle, store, requests, last_request_time,
                   nrequests>>

\* Time passes between two calls.
TickBreaker(d) ==
    /\ now + d <= MaxBreakerTime
    /\ now' = now + d
    /\ UNCHANGED <<scheduler, retried, others, scraper, lifecycle, store>>

NextBreaker ==
    \/ RecordFailure
    \/ RecordSuccess
    \/ CanExecute
    \/ \E d \in BreakerTicks : TickBreaker(d)

SpecBreaker == InitBreaker /\ [][NextBreaker]_vars

\* ------------------------------------------------ BaseScraper._make_request
\* _fetch_page calls _make_request with the default method, GET.  The two
\* category searches of _check_retailer (Searches) run on one scraper, so
\* two calls run interleaved; a call is suspended while it awaits the
\* response of session.get and while it sleeps.  A sleep lasts as long as
\* the code asks (the random jitter of the backoff taken as 0, no Retry-After
\* header); a response may arrive at any time.

\* A coroutine's frame.  attempt: the loop variable; wake: when its sleep
\* ends; skipped: the breaker refused the call; acquired: the times it went
\* through _apply_rate_limit; attempts: the HTTP requests it issued; got200:
\* an attempt returned 200; successes / failures: its record_success() and
\* record_failure() calls; result: what it returned.
NewRequest ==
    [pc |-> "start", attempt |-> 0, wake |-> 0, skipped |-> FALSE,
     acquired |-> 0, attempts |-> 0, got200 |-> FALSE, successes |-> 0,
     failures |-> 0, result |-> "none"]

Requests == BagToSet(requests)

RequestBecomes(r, q) == (requests (-) SetToBag({r})) (+) SetToBag({q})

\* A request has returned; it is collected before anything else runs.
NoRequestReturning == \A r \in Requests : r.pc # "done"

\* A plausible slip: one round too many.
has_next_le(attempt) == attempt <= RETRY_ATTEMPTS - 1

\* attempt < RETRY_ATTEMPTS - 1: another round of range(RETRY_ATTEMPTS)
\* follows this one.
has_next(attempt) == attempt < RETRY_ATTEMPTS - 1

\* RETRY_DELAY_BASE * (2 ** attempt)
backoff(attempt) == RETRY_DELAY_BASE * (2 ^ attempt)

\* The seconds a round sleeps after a response that is not 200: the branch
\* of the status, then the backoff at the foot of the loop.
sleep_after(status, attempt) ==
    (IF status = 429 THEN backoff(attempt)
     ELSE IF status >= 500 /\ has_next(attempt) THEN backoff(attempt)
     ELSE 0)
    + (IF has_next(attempt) THEN backoff(attempt) ELSE 0)

\* _apply_rate_limit: the seconds it sleeps for a drawn delay (0: it does
\* not sleep) before it stamps _last_request_time.
rate_limit_sleep(delay) ==
    IF last_request_time = NoTime THEN 0
    ELSE IF now - last_request_time < delay
         THEN delay - (now - last_request_time)
    ELSE 0

\* The frame after session.get was entered for one more attempt.
Issue(r) == [r EXCEPT !.attempts = @ + 1, !.pc = "get"]

\* The frame after "All attempts failed": record_failure(), return None.
GiveUp(r) == [r EXCEPT !.failures = @ + 1, !.pc = "done", !.result = "None"]

\* The states a scraper is in when a check cycle starts: just constructed;
\* or after failed calls, the last of which went through the rate limiter
\* at 0 and gave up at 6 (three attempts, backoffs of 2 and 4 seconds),
\* leaving 4 failures (CLOSED) or 5 (OPEN).
EarlierRequests ==
    {[now |-> 0, last_request_time |-> NoTime,
      breaker |-> CircuitBreaker(failure_threshold, recovery_timeout)]}
    \cup
    {[now |-> 6, last_request_time |-> 0,
      breaker |-> [CircuitBreaker(failure_threshold, recovery_timeout)
                     EXCEPT !.failures = n, !.last_failure_time = 6,
                            !.state = IF n >= failure_threshold
                                      THEN OPEN ELSE CLOSED]]
        : n \in {failure_threshold - 1, failure_threshold}}

InitRequest ==
    /\ SchedulerIdle
    /\ LifecycleIdle
    /\ StoreIdle
    /\ OthersIdle
    /\ retried = <<>>
    /\ \E e \in EarlierRequests :
            /\ now = e.now
            /\ last_request_time = e.last_request_time
            /\ breaker = e.breaker
    /\ breaker_calls = <<>>
    /\ requests = EmptyBag
    /\ nrequests = 0

\* _make_request is called: can_execute(), and for a call let through
\* _apply_rate_limit, which either sleeps or stamps _last_request_time at
\* once, after which session.get is entered for attempt 0.
StartRequest(delay) ==
    /\ NoRequestReturning
    /\ nrequests < MaxRequestCalls
    /\ BagCardinality(requests) < Cardinality(Searches)
    /\ nrequests' = nrequests + 1
    /\ breaker' = can_execute(breaker).breaker
    /\ IF ~can_execute(breaker).result
       THEN /\ requests' = requests (+) SetToBag({
                    [NewRequest EXCEPT !.skipped = TRUE, !.pc = "done",
                                       !.result = "None"]})
            /\ UNCHANGED last_request_time
       ELSE IF rate_limit_sleep(delay) > 0
       THEN /\ requests' = requests (+) SetToBag({
                    [NewRequest EXCEPT !.pc = "rate_limit",
                                       !.wake = now + rate_limit_sleep(delay)]})
            /\ UNCHANGED last_request_time
       ELSE /\ requests' = requests (+) SetToBag({
                    Issue([NewRequest EXCEPT !.acquired = 1])})
            /\ last_request_time' = now
    /\ UNCHANGED <<now, scheduler, retried, others, lifecycle, store, breaker_calls>>

\* The sleep of _apply_rate_limit is over: _last_request_time is stamped and
\* session.get is entered for attempt 0.
WakeRateLimit(r) ==
    /\ NoRequestReturning
    /\ r.pc = "rate_limit"
    /\ now >= r.wake
    /\ last_request_time' = now
    /\ requests' = RequestBecomes(r, Issue([r EXCEPT !.acquired = @ + 1]))
    /\ UNCHANGED <<now, scheduler, retried, others, lifecycle, store, breaker, breaker_calls, nrequests>>

\* The attempt ends with a status, or with a timeout or transport error.
\* 200: record_success() and return the response.  Otherwise the round goes
\* to sleep, or, when it has nothing to sleep for, the loop is over.
Respond(r, status) ==
    /\ NoRequestReturning
    /\ r.pc = "get"
    /\ IF status = 200
       THEN /\ breaker' = record_success(breaker)
            /\ requests' = RequestBecomes(r,
                    [r EXCEPT !.got200 = TRUE, !.successes = @ + 1,
                              !.pc = "done", !.result = "response"])
       ELSE IF sleep_after(status, r.attempt) > 0
       THEN /\ requests' = RequestBecomes(r,
                    [r EXCEPT !.pc = "backoff",
                              !.wake = now + sleep_after(status, r.attempt)])
            /\ UNCHANGED breaker
       ELSE /\ breaker' = record_failure(breaker)
            /\ requests' = RequestBecomes(r, GiveUp(r))
    /\ UNCHANGED <<now, scheduler, retried, others, lifecycle, store, breaker_calls, last_request_time,
                   nrequests>>

\* The sleep of a round is over: the next round enters session.get, or the
\* loop is over.
WakeBackoff(r) ==
    /\ NoRequestReturning
    /\ r.pc = "backoff"
    /\ now >= r.wake
    /\ IF has_next(r.attempt)
       THEN /\ requests' = RequestBecomes(r, Issue([r EXCEPT !.attempt = @ + 1]))
            /\ UNCHANGED breaker
       ELSE /\ breaker' = record_failure(breaker)
            /\ requests' = RequestBecomes(r, GiveUp(r))
    /\ UNCHANGED <<now, scheduler, retried, others, lifecycle, store, breaker_calls, last_request_time,
                   nrequests>>

\* _make_request has returned to _fetch_page.
ReturnRequest(r) ==
    /\ r.pc = "done"
    /\ requests' = requests (-) SetToBag({r})
    /\ UNCHANGED <<now, scheduler, retried, others, lifecycle, store, breaker, breaker_calls,
                   last_request_time, nrequests>>

\* Time passes: up to the moment the next sleeper is due, or, between two
\* check cycles, by about recovery_timeout.
TickRequest ==
    /\ NoRequestReturning
    /\ LET due == {r.wake : r \in {q \in Requests :
                        q.pc \in {"rate_limit", "backoff"} /\ q.wake > now}}
       IN  \/ /\ due # {}
              /\ now' = CHOOSE w \in due : \A v \in due : w <= v
           \/ /\ requests = EmptyBag
              /\ \E d \in BreakerTicks : now' = now + d
    /\ now' <= MaxRequestTime
    /\ UNCHANGED <<scheduler, retried, others, scraper, lifecycle, store>>

NextRequest ==
    \/ \E r \in Requests : ReturnRequest(r)
    \/ \E delay \in Delays : StartRequest(delay)
    \/ \E r \in Requests : WakeRateLimit(r)
    \/ \E r \in Requests, status \in Statuses : Respond(r, status)
    \/ \E r \in Requests : WakeBackoff(r)
    \/ TickRequest

SpecRequest == InitRequest /\ [][NextRequest]_vars

\* ----------------------------------- StockScheduler: start, stop, the loop
\* start(), stop() and the task of _monitoring_loop, with the
\* check cycles they run.  A cycle creates one task per enabled retailer and
\* awaits them in order; what a retailer check does inside is left to the
\* other specifications, here it runs for a while and returns or raises.
\* The history cleanup of every 720th cycle lies beyond the cycles of a run
\* and is left out.

\* A frame of _check_all_retailers.  owner: start or loop; pc: await
\* (suspended in `await task`), done, raised (an exception left it),
\* cancelled (CancelledError left it).  tasks: the task of each retailer:
\* none, running, cancelling (cancel() called on it), ok, raised, cancelled.
\* counted: how the cycle counted the retailer: none, ok, failed.
NewCycle(owner) ==
    [owner |-> owner, pc |-> "await",
     tasks |-> [r \in Retailers |-> "none"],
     counted |-> [r \in Retailers |-> "none"]]

\* for retailer_key, config in RETAILERS.items(): a task for each enabled one.
CheckTasks(config) ==
    [r \in Retailers |-> IF config[r] = Enabled THEN "running" ELSE "none"]

\* The ways a retailer task ends by returning its products: ok, or logged
\* when a search of it raised and the error was logged.
Returned == {"ok", "logged"}

\* The position in RetailerKeys of the task the cycle awaits next, 0 when
\* every task has been awaited.
Awaited(c) ==
    LET left == {i \in DOMAIN RetailerKeys :
                    /\ c.tasks[RetailerKeys[i]] # "none"
                    /\ c.counted[RetailerKeys[i]] = "none"}
    IN  IF left = {} THEN 0 ELSE CHOOSE i \in left : \A j \in left : i <= j

\* SchedulerStats.add_error on the length of the list.
add_error(st) ==
    [st EXCEPT !.errors = IF @ + 1 > max_errors THEN max_errors ELSE @ + 1]

\* A plausible slip: no try around `await task`, the exception of a retailer
\* check leaves the cycle.
RECURSIVE Collect_unguarded(_, _)
Collect_unguarded(c, st) ==
    LET k == Awaited(c)
    IN  IF k = 0 THEN [cycle |-> [c EXCEPT !.pc = "done"], stats |-> st]
        ELSE IF c.tasks[RetailerKeys[k]] \in Returned
        THEN Collect_unguarded([c EXCEPT !.counted[RetailerKeys[k]] = "ok"],
                     [st EXCEPT !.successful_checks = @ + 1])
        ELSE IF c.tasks[RetailerKeys[k]] = "raised"
        THEN [cycle |-> [c EXCEPT !.pc = "raised"], stats |-> st]
        ELSE [cycle |-> c, stats |-> st]

\* for retailer_key, task in check_tasks: try: await task ... from where the
\* cycle stands up to the next task that is not finished, or to the end.
\* The cycle and the stats afterwards.
RECURSIVE Collect(_, _)
Collect(c, st) ==
    LET k == Awaited(c)
    IN  IF k = 0 THEN [cycle |-> [c EXCEPT !.pc = "done"], stats |-> st]
        ELSE IF c.tasks[RetailerKeys[k]] \in Returned
        THEN Collect([c EXCEPT !.counted[RetailerKeys[k]] = "ok"],
                     [st EXCEPT !.successful_checks = @ + 1])
        ELSE IF c.tasks[RetailerKeys[k]] = "raised"
        THEN Collect([c EXCEPT !.counted[RetailerKeys[k]] = "failed"],
                     add_error([st EXCEPT !.failed_checks = @ + 1]))
        ELSE [cycle |-> c, stats |-> st]

\* _check_all_retailers up to its first await.  fault: an exception is
\* raised outside the try blocks of the cycle, after total_checks was
\* counted (config.enabled raises AttributeError on an entry of RETAILERS
\* that has no such attribute, and src/src/config.py defines plain dicts).
StartCycle(owner, fault, st) ==
    IF fault
    THEN [cycle |-> [NewCycle(owner) EXCEPT !.pc = "raised"],
          stats |-> [st EXCEPT !.total_checks = @ + 1]]
    ELSE Collect([NewCycle(owner) EXCEPT !.tasks = CheckTasks(retailers)],
                 [st EXCEPT !.total_checks = @ + 1])

\* A plausible slip: the loop ends on an exception of a cycle.
AfterError_break == [NoTask EXCEPT !.pc = "done"]

\* except Exception: ... await asyncio.sleep(60)
AfterError ==
    [NoTask EXCEPT !.pc = "error_sleep", !.wake = now + ERROR_RETRY_INTERVAL]

\* while self.running: await asyncio.sleep(CHECK_INTERVAL)
LoopTop(run) ==
    IF run THEN [NoTask EXCEPT !.pc = "sleep", !.wake = now + CHECK_INTERVAL]
    ELSE [NoTask EXCEPT !.pc = "done"]

\* The cycles the loop or start() started.
CyclesOf(owner) == {i \in DOMAIN cycles : cycles[i].owner = owner}

InitLifecycle ==
    /\ now = 0
    /\ SchedulerIdle
    /\ retried = <<>>
    /\ ScraperIdle
    /\ StoreIdle
    /\ OthersIdle
    /\ running = FALSE
    /\ monitoring_task = NoTask
    /\ start_call = NoCall
    /\ stop_call = NoCall
    /\ cycles = <<>>
    /\ stats = NoStats
    /\ retailers \in RetailerConfigs

\* start() on a stopped scheduler, up to the first await of its cycle; when
\* the cycle ends at once (no retailer enabled) the loop task is created and
\* start() returns, when it raises start() raises.
Start(fault) ==
    /\ start_call.pc # "cycle"
    /\ start_call.calls < MaxStarts
    /\ stop_call.pc \in {"idle", "done"}
    /\ ~running
    /\ monitoring_task.pc \in {"none", "done"}
    /\ LET res == StartCycle("start", fault, stats)
       IN  /\ running' = TRUE
           /\ stats' = res.stats
           /\ cycles' = Append(cycles, res.cycle)
           /\ start_call' = [pc |-> IF res.cycle.pc = "await" THEN "cycle"
                                    ELSE res.cycle.pc,
                             calls |-> start_call.calls + 1]
           /\ monitoring_task' = IF res.cycle.pc = "done"
                                 THEN [NoTask EXCEPT !.pc = "created"]
                                 ELSE monitoring_task
    /\ UNCHANGED <<now, scheduler, retried, others, scraper, store, stop_call,
                   retailers>>

\* The task of one retailer check ends: it returns its products, raises, or,
\* with a cancel() pending, ends cancelled.
RetailerFinish(i, r, outcome) ==
    /\ cycles[i].tasks[r] \in {"running", "cancelling"}
    /\ cycles' = [cycles EXCEPT ![i].tasks[r] =
                    IF @ = "cancelling" THEN "cancelled" ELSE outcome]
    /\ UNCHANGED <<now, scheduler, retried, others, scraper, store, running,
                   monitoring_task, start_call, stop_call, stats, retailers>>

\* The task a cycle awaits has ended and the cycle runs on.  A cycle of the
\* loop whose task was cancelled gets CancelledError there, which the loop
\* catches and leaves on.  Otherwise the tasks that have ended are counted;
\* at the end of the cycle start() creates the loop task and returns, the
\* loop goes back to its while.
Resume(i) ==
    /\ cycles[i].pc = "await"
    /\ cycles[i].tasks[RetailerKeys[Awaited(cycles[i])]]
            \in Returned \cup {"raised", "cancelled"}
    /\ IF cycles[i].owner = "loop" /\ monitoring_task.cancelling
       THEN /\ cycles' = [cycles EXCEPT ![i].pc = "cancelled"]
            /\ monitoring_task' = [NoTask EXCEPT !.pc = "done"]
            /\ UNCHANGED <<stats, start_call>>
       ELSE LET res == Collect(cycles[i], stats)
                over == res.cycle.pc = "done"
            IN  /\ cycles' = [cycles EXCEPT ![i] = res.cycle]
                /\ stats' = res.stats
                /\ start_call' = IF over /\ cycles[i].owner = "start"
                                 THEN [start_call EXCEPT !.pc = "done"]
                                 ELSE start_call
                /\ monitoring_task' =
                     IF over /\ cycles[i].owner = "start"
                     THEN [NoTask EXCEPT !.pc = "created"]
                     ELSE IF over /\ cycles[i].owner = "loop"
                     THEN LoopTop(running)
                     ELSE monitoring_task
    /\ UNCHANGED <<now, scheduler, retried, others, scraper, store, running,
                   stop_call, retailers>>

\* The loop task runs: its first step, or a sleep of it is over, or the
\* CancelledError of a pending cancel() is delivered to it.  After the sleep
\* of CHECK_INTERVAL it starts a cycle; a cycle that raises is recorded and
\* followed by the sleep of 60 seconds.
LoopStep(fault) ==
    /\ monitoring_task.pc \in {"created", "sleep", "error_sleep"}
    /\ IF monitoring_task.cancelling
       THEN /\ ~fault
            /\ monitoring_task' = [NoTask EXCEPT !.pc = "done"]
            /\ UNCHANGED <<cycles, stats>>
       ELSE IF monitoring_task.pc = "created"
       THEN /\ ~fault
            /\ monitoring_task' = LoopTop(running)
            /\ UNCHANGED <<cycles, stats>>
       ELSE IF monitoring_task.pc = "error_sleep"
       THEN /\ ~fault
            /\ now >= monitoring_task.wake
            /\ monitoring_task' = LoopTop(running)
            /\ UNCHANGED <<cycles, stats>>
       ELSE IF ~running
       THEN /\ ~fault
            /\ now >= monitoring_task.wake
            /\ monitoring_task' = [NoTask EXCEPT !.pc = "done"]
            /\ UNCHANGED <<cycles, stats>>
       ELSE LET res == StartCycle("loop", fault, stats)
            IN  /\ now >= monitoring_task.wake
                /\ cycles' = Append(cycles, res.cycle)
                /\ stats' = IF res.cycle.pc = "raised"
                            THEN add_error(res.stats) ELSE res.stats
                /\ monitoring_task' =
                     IF res.cycle.pc = "raised"
                     THEN AfterError
                     ELSE IF res.cycle.pc = "done" THEN LoopTop(running)
                     ELSE [NoTask EXCEPT !.pc = "cycle"]
    /\ UNCHANGED <<now, scheduler, retried, others, scraper, store, running,
                   start_call, stop_call, retailers>>

\* stop() up to its first await: running is cleared; a loop task that is not
\* done is cancelled, which cancels the retailer task its cycle awaits, and
\* stop() awaits the loop task.
Stop ==
    /\ stop_call.pc \in {"idle", "done"}
    /\ stop_call.calls < MaxStops
    /\ running' = FALSE
    /\ IF monitoring_task.pc \notin {"none", "done"}
       THEN /\ monitoring_task' = [monitoring_task EXCEPT !.cancelling = TRUE]
            /\ cycles' = [i \in DOMAIN cycles |->
                    IF /\ cycles[i].owner = "loop"
                       /\ cycles[i].pc = "await"
                       /\ cycles[i].tasks[RetailerKeys[Awaited(cycles[i])]]
                            = "running"
                    THEN [cycles[i] EXCEPT
                            !.tasks[RetailerKeys[Awaited(cycles[i])]]
                                = "cancelling"]
                    ELSE cycles[i]]
            /\ stop_call' = [pc |-> "await_task", calls |-> stop_call.calls + 1]
       ELSE /\ stop_call' = [pc |-> "closing", calls |-> stop_call.calls + 1]
            /\ UNCHANGED <<monitoring_task, cycles>>
    /\ UNCHANGED <<now, scheduler, retried, others, scraper, store, start_call, stats,
                   retailers>>

\* await self._monitoring_task is over: stop() goes on to close the sessions.
StopAwaited ==
    /\ stop_call.pc = "await_task"
    /\ monitoring_task.pc = "done"
    /\ stop_call' = [stop_call EXCEPT !.pc = "closing"]
    /\ UNCHANGED <<now, scheduler, retried, others, scraper, store, running,
                   monitoring_task, start_call, cycles, stats, retailers>>

\* The sessions are closed and stop() returns.
StopReturn ==
    /\ stop_call.pc = "closing"
    /\ stop_call' = [stop_call EXCEPT !.pc = "done"]
    /\ UNCHANGED <<now, scheduler, retried, others, scraper, store, running,
                   monitoring_task, start_call, cycles, stats, retailers>>

\* Time passes up to the moment the sleeping loop is due.
TickLifecycle ==
    /\ monitoring_task.pc \in {"sleep", "error_sleep"}
    /\ monitoring_task.wake > now
    /\ monitoring_task.wake <= MaxLifeTime
    /\ now' = monitoring_task.wake
    /\ UNCHANGED <<scheduler, retried, others, scraper, store, lifecycle>>

NextLifecycle ==
    \/ \E fault \in BOOLEAN : Start(fault)
    \/ \E i \in DOMAIN cycles, r \in Retailers, outcome \in {"ok", "raised"} :
            RetailerFinish(i, r, outcome)
    \/ \E i \in DOMAIN cycles : Resume(i)
    \/ \E fault \in BOOLEAN : LoopStep(fault)
    \/ Stop
    \/ StopAwaited
    \/ StopReturn
    \/ TickLifecycle

SpecLifecycle == InitLifecycle /\ [][NextLifecycle]_vars

\* The event loop runs a task that is ready and its clock advances: the loop
\* task takes its next step when its sleep is over.
SpecLifecycleFair ==
    /\ SpecLifecycle
    /\ WF_vars(TickLifecycle)
    /\ WF_vars(\E fault \in BOOLEAN : LoopStep(fault))

\* ------------------------------------ _check_retailer and force_check()
\* The cycles of force_check(), with the inside of a retailer check: its two
\* searches are gathered with return_exceptions=True, so each gives its
\* products or an exception object; the `async with scraper` around them
\* may raise on its own (the ClientSession cannot be made or closed).
SearchResults == {"products", "exception"}

\* _check_retailer: how the task ends.
check_retailer(pokemon, onepiece, context) ==
    IF context = "exception" THEN "raised"
    ELSE IF "exception" \in {pokemon, onepiece} THEN "logged"
    ELSE "ok"

\* force_check(): one more cycle, whatever else is going on.
ForceCheck(fault) ==
    /\ Cardinality(CyclesOf("force")) < MaxForce
    /\ LET res == StartCycle("force", fault, stats)
       IN  /\ cycles' = Append(cycles, res.cycle)
           /\ stats' = res.stats
    /\ UNCHANGED <<now, scheduler, retried, others, scraper, store, running,
                   monitoring_task, start_call, stop_call, retailers>>

\* A retailer check runs to its end.
CheckRetailer(i, r, pokemon, onepiece, context) ==
    /\ cycles[i].tasks[r] = "running"
    /\ cycles' = [cycles EXCEPT ![i].tasks[r] =
                    check_retailer(pokemon, onepiece, context)]
    /\ UNCHANGED <<now, scheduler, retried, others, scraper, store, running,
                   monitoring_task, start_call, stop_call, stats, retailers>>

NextCheck ==
    \/ \E fault \in BOOLEAN : ForceCheck(fault)
    \/ \E i \in DOMAIN cycles, r \in Retailers,
          pokemon \in SearchResults, onepiece \in SearchResults,
          context \in SearchResults :
            CheckRetailer(i, r, pokemon, onepiece, context)
    \/ \E i \in DOMAIN cycles : Resume(i)

SpecCheck == InitLifecycle /\ [][NextCheck]_vars

\* ------------------------------------------- Database.cleanup_old_history
\* The history cleanup next to the coroutines that write the tables.  The
\* database is thirty days old: "A" is stored out of stock, and its history
\* has rows from the first two seconds and from a day ago.
Days == {1, RetentionDays}      \* cleanup_old_history(days=...)

\* A plausible slip: rows stamped exactly at the cutoff are deleted too.
cleanup_old_history_le(days) ==
    LET cutoff_time == now - days * SecondsPerDay
        kept == SelectSeq(stock_history, LAMBDA row : row.timestamp > cutoff_time)
    IN  [stock_history |-> kept, rowcount |-> Len(stock_history) - Len(kept)]

\* DELETE FROM stock_history WHERE timestamp < cutoff_time: the table
\* afterwards and cursor.rowcount.
cleanup_old_history(days) ==
    LET cutoff_time == now - days * SecondsPerDay
        kept == SelectSeq(stock_history,
                          LAMBDA row : ~(row.timestamp < cutoff_time))
    IN  [stock_history |-> kept, rowcount |-> Len(stock_history) - Len(kept)]

InitCleanup ==
    /\ now = RetentionDays * SecondsPerDay
    /\ products = [NoProducts EXCEPT !["A"] = <<Product("A", FALSE, 2)>>]
    /\ alerts = <<>>
    /\ stock_history =
         <<HistoryRow(Product("A", TRUE, 2), 0),
           HistoryRow(Product("A", FALSE, 2), 1),
           HistoryRow(Product("A", FALSE, 2),
                      (RetentionDays - 1) * SecondsPerDay + 1)>>
    /\ notified = <<>>
    /\ failed_alerts = <<>>
    /\ alerts_sent = 0
    /\ tasks = EmptyBag
    /\ ncalls = 0
    /\ retried = <<>>
    /\ ScraperIdle
    /\ LifecycleIdle
    /\ StoreIdle
    /\ OthersIdle

\* A listing is handed to _process_product while the cleanup is around.
ObserveListing(id, in_stock, price) ==
    /\ ncalls < MaxCleanupCalls
    /\ GetProduct(id, in_stock, price)

\* deleted = await self.db.cleanup_old_history(days), at the end of a cycle,
\* when the retailer checks of the cycle have been awaited.
CleanupOldHistory(days) ==
    /\ tasks = EmptyBag
    /\ stock_history' = cleanup_old_history(days).stock_history
    /\ deleted' = cleanup_old_history(days).rowcount
    /\ UNCHANGED <<now, products, alerts, failed_alerts, alerts_sent, tasks,
                   ncalls, notified, retried, scraper, lifecycle, store>>
    /\ UNCHANGED <<errors, nerrors, orphans, session, closed_sessions, checks>>

\* A second passes between the checks of one listing and the next.
TickCleanup ==
    /\ tasks = EmptyBag
    /\ now < MaxCleanupTime
    /\ now' = now + 1
    /\ UNCHANGED <<scheduler, retried, others, scraper, lifecycle, store>>

NextCleanup ==
    \/ \E t \in Tasks : Return(t)
    \/ \E id \in Pids, in_stock \in BOOLEAN, price \in Prices :
            ObserveListing(id, in_stock, price)
    \/ \E t \in Tasks : ShouldSendAlert(t)
    \/ \E t \in Tasks : SaveAlert(t)
    \/ \E t \in Tasks, outcome \in Outcomes : SendAlert(t, outcome)
    \/ \E t \in Tasks : MarkAlertSent(t)
    \/ \E t \in Tasks : SaveProduct(t)
    \/ \E t \in Tasks : SaveStockHistory(t)
    \/ \E days \in Days : CleanupOldHistory(days)
    \/ TickCleanup

SpecCleanup == InitCleanup /\ [][NextCleanup]_vars

\* ------------------------------------------ SchedulerStats: the error list
\* add_error on the list itself.  An error string is modelled by the number
\* of the add_error call that brought it (the strings start with the time of
\* the call).

\* A plausible slip: the oldest entries are kept, not the newest.
add_error_list_head(errs, error) ==
    LET appended == Append(errs, error)
    IN  IF Len(appended) > max_errors
        THEN SubSeq(appended, 1, max_errors)
        ELSE appended

\* SchedulerStats.add_error: append, then keep self.errors[-self.max_errors:]
add_error_list(errs, error) ==
    LET appended == Append(errs, error)
    IN  IF Len(appended) > max_errors
        THEN SubSeq(appended, Len(appended) - max_errors + 1, Len(appended))
        ELSE appended

\* to_dict()['recent_errors']: self.errors[-10:] if self.errors else []
recent_errors(errs) ==
    IF errs = <<>> THEN <<>>
    ELSE SubSeq(errs, Max({1, Len(errs) - recent_shown + 1}), Len(errs))

InitErrors ==
    /\ now = 0
    /\ SchedulerIdle
    /\ retried = <<>>
    /\ ScraperIdle
    /\ LifecycleIdle
    /\ StoreIdle
    /\ OthersIdle

\* self._stats.add_error(...)
AddError ==
    /\ nerrors < MaxAddErrors
    /\ nerrors' = nerrors + 1
    /\ errors' = add_error_list(errors, nerrors + 1)
    /\ UNCHANGED <<now, scheduler, retried, scraper, lifecycle, store>>
    /\ UNCHANGED <<orphans, session, closed_sessions, checks, deleted>>

NextErrors == AddError

SpecErrors == InitErrors /\ [][NextErrors]_vars

\* ------------------------------------- Database: the products table, whole
\* save_product and get_product with every column that a conversion touches:
\* in_stock goes through int() and bool(), the datetimes through isoformat()
\* and fromisoformat(), currency and category through `or`, and created_at
\* is not among the columns of the INSERT, so SQLite fills it with
\* CURRENT_TIMESTAMP.  name, retailer, url, image_url, set_name and pack_type
\* are passed through like price and left out.
StoreIds == {"A", "B"}

\* Product dataclass with created_at (default_factory=datetime.now).
ProductObject(id, price, in_stock, category, last_checked, created_at) ==
    [id |-> id, price |-> price, currency |-> "AUD", in_stock |-> in_stock,
     category |-> category, last_checked |-> last_checked,
     created_at |-> created_at]

\* datetime.isoformat() if the datetime is set, else None (NULL is <<>>).
isoformat(t) == IF t = NoTime THEN <<>> ELSE <<"T", t>>

\* datetime.fromisoformat(text) if the column is set, else None.
fromisoformat(text) == IF text = <<>> THEN NoTime ELSE text[2]

\* The row INSERT OR REPLACE writes for a product.
ProductRow(product) ==
    [id |-> product.id, price |-> product.price, currency |-> product.currency,
     in_stock |-> BoolInt(product.in_stock), category |-> product.category,
     last_checked |-> isoformat(product.last_checked),
     created_at |-> isoformat(now)]

\* A plausible slip: INSERT without OR REPLACE on a table without the key.
insert_or_replace_append(product) == product_rows \cup {ProductRow(product)}

\* Database.save_product on the whole table: the row with this id, if any,
\* is replaced.
insert_or_replace(product) ==
    {r \in product_rows : r.id # product.id} \cup {ProductRow(product)}

\* Database._row_to_product
row_to_product(row) ==
    [id |-> row.id, price |-> row.price,
     currency |-> IF row.currency = "" THEN "AUD" ELSE row.currency,
     in_stock |-> row.in_stock # 0,
     category |-> row.category,
     last_checked |-> fromisoformat(row.last_checked),
     created_at |-> fromisoformat(row.created_at)]

\* Database.get_product on the whole table: <<>> for None.
select_product(product_id) ==
    LET found == {r \in product_rows : r.id = product_id}
    IN  IF found = {} THEN <<>>
        ELSE <<row_to_product(CHOOSE r \in found : TRUE)>>

InitProducts ==
    /\ now = 1
    /\ SchedulerIdle
    /\ retried = <<>>
    /\ ScraperIdle
    /\ LifecycleIdle
    /\ StoreIdle
    /\ OthersIdle

\* await db.save_product(product) for a Product constructed a second ago or
\* just now.
SaveProductRow(product) ==
    /\ nsaves < MaxSaves
    /\ nsaves' = nsaves + 1
    /\ product_rows' = insert_or_replace(product)
    /\ last_saved' = [last_saved EXCEPT ![product.id] = <<product>>]
    /\ UNCHANGED <<now, scheduler, retried, others, scraper, lifecycle>>

TickProducts ==
    /\ now < MaxStoreTime
    /\ now' = now + 1
    /\ UNCHANGED <<scheduler, retried, others, scraper, lifecycle, store>>

NextProducts ==
    \/ \E id \in StoreIds, price \in Prices, in_stock \in BOOLEAN,
          category \in {"pokemon", ""}, last_checked \in {NoTime, now},
          created_at \in {now - 1, now} :
            SaveProductRow(ProductObject(id, price, in_stock, category,
                                         last_checked, created_at))
    \/ TickProducts

SpecProducts == InitProducts /\ [][NextProducts]_vars

\* ------------------------------------- DeadLetterQueue and its retry manager
\* The queue used through its own interface: add_failed_alert() by whoever
\* reports a failed delivery, and the passes of AlertRetryManager._retry_loop,
\* one after another, check_interval (300 s) plus the time of a pass apart.
\* The queue as a pass may find it: empty; or holding a row for "A" that was
\* added at 0 and came back with a failure from the passes at 301 and 602.
\* With that row the tables hold what the scheduler wrote meanwhile: the
\* IN_STOCK alert of 0, "A" seen out of stock at 301, and a second restock
\* with its alert at 602.
EarlierPasses ==
    {[failed_alerts |-> <<>>, notified |-> <<>>, retried |-> <<>>,
      alerts |-> <<>>, stock_history |-> <<>>]}
    \cup
    {[failed_alerts |-> <<[FailedAlert("A", IN_STOCK, 0)
                             EXCEPT !.retry_count = 2, !.last_retry = 602]>>,
      notified |-> <<Notification("A", IN_STOCK, 301, "fail", "retry"),
                     Notification("A", IN_STOCK, 602, "fail", "retry")>>,
      retried |-> <<1, 1>>,
      alerts |-> <<[StockAlert(Product("A", TRUE, 2), IN_STOCK, 0, 0, NoPrice)
                        EXCEPT !.sent = TRUE],
                   [StockAlert(Product("A", TRUE, 2), IN_STOCK, 602, 0, NoPrice)
                        EXCEPT !.sent = TRUE]>>,
      stock_history |-> <<HistoryRow(Product("A", TRUE, 2), 0),
                          HistoryRow(Product("A", FALSE, 2), 301),
                          HistoryRow(Product("A", TRUE, 2), 602)>>]}

InitDLQ ==
    /\ now = 602
    /\ products \in {NoProducts,
                      [NoProducts EXCEPT !["A"] = <<Product("A", TRUE, 2)>>]}
    /\ \E q \in EarlierPasses :
            /\ failed_alerts = q.failed_alerts
            /\ notified = q.notified
            /\ retried = q.retried
            /\ q.failed_alerts # <<>> => products["A"] # <<>>
            /\ alerts = q.alerts
            /\ stock_history = q.stock_history
    /\ alerts_sent = 0
    /\ tasks = EmptyBag
    /\ ncalls = 0
    /\ ScraperIdle
    /\ LifecycleIdle
    /\ StoreIdle
    /\ OthersIdle

\* dlq.add_failed_alert(alert, error_message) for an IN_STOCK alert.
AddFailedAlert(product_id) ==
    /\ Len(failed_alerts) < MaxFailed
    /\ failed_alerts' = add_failed_alert(
            StockAlert(Product(product_id, TRUE, 2), IN_STOCK, now, 0, NoPrice))
    /\ UNCHANGED <<now, products, alerts, stock_history, alerts_sent, tasks,
                   ncalls, notified, retried, others, scraper, lifecycle, store>>

\* Time passes between two passes.
TickDLQ(d) ==
    /\ now + d <= MaxDLQTime
    /\ now' = now + d
    /\ UNCHANGED <<scheduler, retried, others, scraper, lifecycle, store>>

NextDLQ ==
    \/ \E product_id \in Pids : AddFailedAlert(product_id)
    \/ \E outs \in [Retryable -> Outcomes] : ProcessRetries(outs)
    \/ \E d \in RetryTicks : TickDLQ(d)

SpecDLQ == InitDLQ /\ [][NextDLQ]_vars

\* ------------------------------------------------------------- Properties
\* The alert types a call has saved, in order.
EmittedTypes(t) == [k \in DOMAIN t.emitted |-> t.emitted[k].alert_type]

\* A call that has reached its end: "done" after save_stock_history,
\* "suppressed" after the cooldown return.
Ended(t) == t.pc \in Terminal

\* A call that observed a restock: stored out of stock, listing in stock.
Restock(t) ==
    /\ t.previous # <<>>
    /\ ~t.previous[1].in_stock
    /\ t.product[1].in_stock

\* C1: under any interleaving of _process_product calls, the alert callback
\* is invoked at most once per product within any ALERT_COOLDOWN window:
\* two dispatches for one product are at least ALERT_COOLDOWN apart.
C1_OncePerCooldown ==
    \A i, j \in DOMAIN notified :
        /\ i < j
        /\ notified[i].by = "dispatch"
        /\ notified[j].by = "dispatch"
        /\ notified[i].product_id = notified[j].product_id
        => notified[j].time - notified[i].time >= ALERT_COOLDOWN

\* C2: when the callback raises or returns failure for an alert, the
\* dispatch adds exactly one row for that alert to failed_alerts, with
\* retry_count 0 and unresolved.
C2_FailedDispatchQueued ==
    [][ /\ Len(notified') = Len(notified) + 1
        /\ notified'[Len(notified')].by = "dispatch"
        /\ notified'[Len(notified')].outcome # "ok"
        => /\ Len(failed_alerts') = Len(failed_alerts) + 1
           /\ failed_alerts'[Len(failed_alerts')] =
                  FailedAlert(notified'[Len(notified')].product_id,
                              notified'[Len(notified')].alert_type, now) ]_vars

\* C3: an alert that passed the cooldown is never silently lost: once its
\* dispatch has failed, either a later callback delivers it or a
\* failed_alerts row still holds it (pending retry, or exhausted at
\* max_retries).
C3_NeverLost ==
    \A i \in DOMAIN notified :
        notified[i].outcome # "ok" =>
            \/ \E j \in DOMAIN notified :
                  /\ j > i
                  /\ notified[j].product_id = notified[i].product_id
                  /\ notified[j].alert_type = notified[i].alert_type
                  /\ notified[j].outcome = "ok"
            \/ \E k \in DOMAIN failed_alerts :
                  /\ failed_alerts[k].product_id = notified[i].product_id
                  /\ failed_alerts[k].alert_type = notified[i].alert_type
                  /\ ~failed_alerts[k].resolved
                  /\ failed_alerts[k].retry_count <= max_retries

\* C4: every _process_product call, whether it emitted an alert, was
\* suppressed by the cooldown or saw no change, ends with the stored Product
\* equal to the observed one and with one stock_history row appended for it.
C4_AlwaysPersisted ==
    \A t \in Tasks :
        Ended(t) =>
            /\ get_product(t.product[1].id) = t.product
            /\ stock_history # <<>>
            /\ stock_history[Len(stock_history)] = HistoryRow(t.product[1], now)

\* C5 as stated: a call that finds the stored Product out of stock and the
\* listing in stock produces exactly one IN_STOCK alert and no other.
C5_RestockOneAlert ==
    \A t \in Tasks :
        Ended(t) /\ Restock(t) => EmittedTypes(t) = <<IN_STOCK>>

\* C5, with the cooldown: such a call produces exactly one IN_STOCK alert
\* and no NEW_PRODUCT alert when should_send_alert lets it through, and
\* returns without any alert only when should_send_alert is false.
C5_RestockOneAlertUnlessCooldown ==
    \A t \in Tasks :
        Restock(t) =>
            /\ t.pc = "done" => EmittedTypes(t) = <<IN_STOCK>>
            /\ t.pc = "suppressed" =>
                    /\ t.emitted = <<>>
                    /\ ~should_send_alert(t.product[1].id, ALERT_COOLDOWN)

\* A restock call that has run to its end after saving its IN_STOCK alert,
\* the listing's price differing from the stored one.
C5_Witness ==
    \E t \in Tasks :
        /\ t.pc = "done"
        /\ Restock(t)
        /\ t.product[1].price # t.previous[1].price
        /\ t.product[1].price # NoPrice
        /\ EmittedTypes(t) = <<IN_STOCK>>

\* C6: with no stored Product, a listing in stock produces exactly one
\* NEW_PRODUCT event and a listing out of stock produces none; the Product
\* row exists afterwards in both cases.
C6_NewProductEvent ==
    \A t \in Tasks :
        Ended(t) /\ t.previous = <<>> =>
            /\ get_product(t.product[1].id) # <<>>
            /\ EmittedTypes(t) =
                  IF t.product[1].in_stock THEN <<NEW_PRODUCT>> ELSE <<>>

\* C7: a call that finds the stored Product in stock and the listing out of
\* stock produces an OUT_OF_STOCK alert.
C7_OutOfStockAlert ==
    \A t \in Tasks :
        /\ Ended(t)
        /\ t.previous # <<>>
        /\ t.previous[1].in_stock
        /\ ~t.product[1].in_stock
        => \E k \in DOMAIN t.emitted : t.emitted[k].alert_type = OUT_OF_STOCK

\* C8: a call produces a PRICE_CHANGE alert carrying the stored price exactly
\* when a stored Product exists, the stored and the observed price are both
\* non-null and they differ, whatever the stock transition.
C8_PriceChangeExactly ==
    \A t \in Tasks :
        Ended(t) =>
            LET changed == IF t.previous = <<>> THEN FALSE
                           ELSE /\ t.previous[1].price # NoPrice
                                /\ t.product[1].price # NoPrice
                                /\ t.previous[1].price # t.product[1].price
                priced  == {k \in DOMAIN t.emitted :
                               t.emitted[k].alert_type = PRICE_CHANGE}
            IN  /\ changed <=> priced # {}
                /\ \A k \in priced :
                       t.emitted[k].previous_price = t.previous[1].price

\* C9: with an IN_STOCK alert saved for a product at T, should_send_alert
\* with a cooldown of 300 is false at every query time up to T + 300 and
\* true after T + 300; with no IN_STOCK alert saved it is true.
C9_CooldownWindow ==
    \A p \in Pids :
        LET saved == {alerts[i].timestamp : i \in
                        {j \in DOMAIN alerts : /\ alerts[j].product_id = p
                                               /\ alerts[j].alert_type = IN_STOCK}}
        IN  /\ (\E T \in saved : now <= T + 300) => ~should_send_alert(p, 300)
            /\ (\A T \in saved : now > T + 300) => should_send_alert(p, 300)

\* The boundary: a restock is checked exactly 300 seconds after the IN_STOCK
\* alert was saved, and the call is turned away.
C9_Witness ==
    \E t \in Tasks :
        /\ t.pc = "suppressed"
        /\ \E i \in DOMAIN alerts :
              /\ alerts[i].product_id = t.product[1].id
              /\ alerts[i].alert_type = IN_STOCK
              /\ now = alerts[i].timestamp + 300

\* C10: the cooldown is keyed by product only: after an alert of any type
\* was saved for a product at T, should_send_alert is false before
\* T + ALERT_COOLDOWN.
C10_AnyTypeCooldown ==
    \A i \in DOMAIN alerts :
        now < alerts[i].timestamp + ALERT_COOLDOWN
            => ~should_send_alert(alerts[i].product_id, ALERT_COOLDOWN)

\* C11: for an event of any alert type, a call that is turned away by the
\* cooldown saves no alert row and does not invoke the callback, and a call
\* that saves an alert row then invokes the callback for it.
C11_SavedThenNotified ==
    \A t \in Tasks :
        /\ t.pc = "suppressed" => t.emitted = <<>> /\ t.outcome = "none"
        /\ t.outcome # "none" => t.emitted # <<>>
        /\ t.pc = "done" /\ t.emitted # <<>> => t.outcome # "none"

\* The record_failure calls in a call log since its last record_success.
RECURSIVE Streak(_)
Streak(calls) ==
    IF calls = <<>> THEN 0
    ELSE LET last == calls[Len(calls)]
         IN  IF last.op = "record_success" THEN 0
             ELSE (IF last.op = "record_failure" THEN 1 ELSE 0)
                  + Streak(SubSeq(calls, 1, Len(calls) - 1))

\* No can_execute() among the calls made so far.
NeverProbed ==
    \A k \in DOMAIN breaker_calls : breaker_calls[k].op # "can_execute"

\* C12: after any sequence of record_failure() and record_success() calls on
\* a fresh breaker, failures is the number of record_failure() calls since
\* the last record_success(), the state is OPEN iff that number is at least
\* failure_threshold and CLOSED otherwise; record_success() always leaves
\* failures at 0.
C12_OpenIffThreshold ==
    /\ NeverProbed =>
          /\ breaker.failures = Streak(breaker_calls)
          /\ breaker.state =
                IF Streak(breaker_calls) >= breaker.failure_threshold
                THEN OPEN ELSE CLOSED
    /\ /\ breaker_calls # <<>>
       /\ breaker_calls[Len(breaker_calls)].op = "record_success"
       => breaker.failures = 0

\* A breaker with a threshold above 1 that was reset by a success and then
\* opened by a new run of failures.
C12_Witness ==
    /\ NeverProbed
    /\ \E k \in DOMAIN breaker_calls : breaker_calls[k].op = "record_success"
    /\ breaker.failure_threshold > 1
    /\ Streak(breaker_calls) = breaker.failure_threshold
    /\ breaker.state = OPEN

\* C13: can_execute() on an OPEN breaker returns false and leaves it OPEN
\* while less than recovery_timeout has passed since last_failure_time, and
\* returns true and makes it HALF_OPEN once at least recovery_timeout has
\* passed; the breaker becomes HALF_OPEN in no other way.
C13_OpenUntilRecoveryTimeout ==
    [][ /\ /\ breaker.state = OPEN
           /\ Len(breaker_calls') = Len(breaker_calls) + 1
           /\ breaker_calls'[Len(breaker_calls')].op = "can_execute"
           => IF now - breaker.last_failure_time < breaker.recovery_timeout
              THEN /\ ~breaker_calls'[Len(breaker_calls')].result
                   /\ breaker' = breaker
              ELSE /\ breaker_calls'[Len(breaker_calls')].result
                   /\ breaker'.state = HALF_OPEN
        /\ breaker.state # HALF_OPEN /\ breaker'.state = HALF_OPEN
           => /\ breaker.state = OPEN
              /\ Len(breaker_calls') = Len(breaker_calls) + 1
              /\ breaker_calls'[Len(breaker_calls')].op = "can_execute" ]_vars

\* can_execute() has just moved the breaker to HALF_OPEN exactly
\* recovery_timeout seconds after the last failure, having refused before.
C13_Witness ==
    /\ breaker.state = HALF_OPEN
    /\ breaker.recovery_timeout > 0
    /\ now - breaker.last_failure_time = breaker.recovery_timeout
    /\ breaker_calls[Len(breaker_calls)] =
          BreakerCall("can_execute", TRUE, OPEN, 0)
    /\ \E k \in DOMAIN breaker_calls :
          breaker_calls[k] = BreakerCall("can_execute", FALSE, OPEN, 0)

\* C14: on a HALF_OPEN breaker, whatever its failure_threshold, can_execute()
\* returns true, record_failure() makes it OPEN at once and record_success()
\* makes it CLOSED with failures = 0.
C14_HalfOpenProbe ==
    [][ /\ breaker.state = HALF_OPEN
        /\ Len(breaker_calls') = Len(breaker_calls) + 1
        => LET call == breaker_calls'[Len(breaker_calls')]
           IN  /\ call.op = "can_execute" =>
                     call.result /\ breaker'.state = HALF_OPEN
               /\ call.op = "record_failure" => breaker'.state = OPEN
               /\ call.op = "record_success" =>
                     breaker'.state = CLOSED /\ breaker'.failures = 0 ]_vars

\* A HALF_OPEN breaker with a threshold above 1 was closed by a success.
C14_Witness ==
    /\ breaker_calls # <<>>
    /\ breaker_calls[Len(breaker_calls)] =
          BreakerCall("record_success", TRUE, HALF_OPEN, 0)
    /\ breaker.failure_threshold > 1
    /\ breaker.state = CLOSED

\* The frame a step has added to the requests in flight.
Started == CHOOSE r \in BagToSet(requests' (-) requests) : TRUE

\* C15: a _make_request call that finds the breaker OPEN before
\* recovery_timeout has passed returns None without going through the rate
\* limiter, without any HTTP attempt and without changing the breaker.
C15_OpenBreakerSkips ==
    [][ /\ nrequests' = nrequests + 1
        /\ breaker.state = OPEN
        /\ now - breaker.last_failure_time < breaker.recovery_timeout
        => /\ Started.pc = "done"
           /\ Started.result = "None"
           /\ Started.attempts = 0
           /\ Started.acquired = 0
           /\ last_request_time' = last_request_time
           /\ breaker' = breaker ]_vars

\* A call was refused 59 seconds after the failure that opened the breaker.
C15_Witness ==
    /\ breaker.state = OPEN
    /\ now - breaker.last_failure_time = breaker.recovery_timeout - 1
    /\ \E r \in Requests : r.skipped /\ r.pc = "done" /\ r.attempts = 0

\* C16: a _make_request call that the breaker lets through issues at most
\* RETRY_ATTEMPTS HTTP attempts and stops at the first 200; it calls
\* record_success() exactly when an attempt returned 200 and record_failure()
\* exactly once, after its last attempt, exactly when none did; an attempt
\* that ends in 429, 5xx, another status, a timeout or a transport error
\* leaves the breaker alone unless it ends the call.
C16_OneVerdictPerCall ==
    /\ [](\A r \in Requests :
            /\ r.attempts <= RETRY_ATTEMPTS
            /\ r.got200 => r.pc = "done" /\ r.result = "response"
            /\ r.successes = BoolInt(r.got200)
            /\ r.failures = BoolInt(r.pc = "done" /\ ~r.got200 /\ ~r.skipped)
            /\ r.failures = 1 => r.attempts = RETRY_ATTEMPTS)
    /\ [][ breaker' # breaker =>
              \/ nrequests' = nrequests + 1
              \/ \E r \in BagToSet(requests' (-) requests) : r.pc = "done" ]_vars

\* A call gave up after 429, 500 and a timeout and recorded one failure.
C16_Witness ==
    \E r \in Requests :
        /\ r.pc = "done"
        /\ r.attempts = RETRY_ATTEMPTS
        /\ r.failures = 1
        /\ r.successes = 0
        /\ breaker.failures = failure_threshold
        /\ breaker.state = OPEN

\* C17: every HTTP attempt, retries included, is preceded by its own pass
\* through _apply_rate_limit: a call has issued no more attempts than it has
\* made passes.
C17_RateLimitPerAttempt ==
    \A r \in Requests : r.attempts <= r.acquired


\* ---------------------------------------------------------------------------
\* The dead-letter queue (SpecDLQ).
\* ---------------------------------------------------------------------------

\* The rows a pass is due to handle, stated from the row's age rather than
\* from the cutoff the query computes.
Due ==
    {i \in DOMAIN failed_alerts :
        /\ failed_alerts[i].resolved = FALSE
        /\ failed_alerts[i].retry_count < max_retries
        /\ \/ failed_alerts[i].last_retry = NoTime
           \/ now - failed_alerts[i].last_retry > retry_delay_minutes * 60}

\* How many times the retry manager called the callback for row i.
Callbacks(i) == Cardinality({k \in DOMAIN retried : retried[k] = i})

\* C18: get_retryable_alerts returns exactly the rows that are unresolved,
\* below max_retries, and never retried or last retried more than retry_delay
\* ago, each once; a resolved row and a row with retry_count = max_retries are
\* never returned, whatever their last_retry.
C18_RetryableExactly ==
    LET returned == get_retryable_alerts
    IN  /\ {returned[k] : k \in DOMAIN returned} = Due
        /\ Len(returned) = Cardinality(Due)
        /\ \A i \in DOMAIN failed_alerts :
              (failed_alerts[i].resolved
                 \/ failed_alerts[i].retry_count = max_retries)
              => \A k \in DOMAIN returned : returned[k] # i

\* A row at max_retries whose last retry is older than retry_delay is held
\* back while a younger row is returned.
C18_Witness ==
    \E i, j \in DOMAIN failed_alerts :
        /\ failed_alerts[i].retry_count = max_retries
        /\ ~failed_alerts[i].resolved
        /\ now - failed_alerts[i].last_retry > retry_delay_minutes * 60
        /\ get_retryable_alerts = <<j>>

\* C19: one retry pass gives every due row exactly one outcome and leaves
\* every other row alone: a row whose product is gone is resolved without a
\* callback; otherwise the callback runs once, and the row is resolved with
\* retry_count unchanged if it succeeded, or has retry_count + 1, last_retry
\* stamped and resolved still false if it failed or raised.
C19_OneOutcomePerEntry ==
    [][(now' = now /\ Len(failed_alerts') = Len(failed_alerts)) =>
        LET ids   == SubSeq(retried', Len(retried) + 1, Len(retried'))
            calls == SubSeq(notified', Len(notified) + 1, Len(notified'))
        IN  /\ Len(calls) = Len(ids)
            /\ \A i \in DOMAIN failed_alerts :
                 LET row  == failed_alerts[i]
                     mine == {k \in DOMAIN ids : ids[k] = i}
                 IN  IF i \notin Due
                     THEN failed_alerts'[i] = row /\ mine = {}
                     ELSE IF products[row.product_id] = <<>>
                     THEN /\ mine = {}
                          /\ failed_alerts'[i] = [row EXCEPT !.resolved = TRUE]
                     ELSE /\ Cardinality(mine) = 1
                          /\ \A k \in mine :
                               /\ calls[k].product_id = row.product_id
                               /\ calls[k].alert_type = row.alert_type
                               /\ IF calls[k].outcome = "ok"
                                  THEN failed_alerts'[i] =
                                         [row EXCEPT !.resolved = TRUE]
                                  ELSE failed_alerts'[i] =
                                         [row EXCEPT
                                            !.retry_count = row.retry_count + 1,
                                            !.last_retry = now]]_vars

\* One pass has just resolved one row by a successful callback and charged a
\* retry to another whose callback raised.
C19_Witness ==
    /\ Len(retried) >= 2
    /\ Len(notified) >= 2
    /\ LET i  == retried[Len(retried) - 1]
           j  == retried[Len(retried)]
           ci == notified[Len(notified) - 1]
           cj == notified[Len(notified)]
       IN  /\ i # j
           /\ ci.time = now /\ cj.time = now
           /\ ci.outcome = "ok" /\ cj.outcome = "raise"
           /\ failed_alerts[i].resolved
           /\ failed_alerts[i].retry_count = 0
           /\ ~failed_alerts[j].resolved
           /\ failed_alerts[j].retry_count = 1
           /\ failed_alerts[j].last_retry = now

\* C20: over any sequence of passes the callback runs at most max_retries
\* times for one row and retry_count never exceeds max_retries; a row that
\* reached max_retries is never changed again (so it stays unresolved) and
\* never handed to the callback again.
C20_RetryCeiling ==
    /\ [](\A i \in DOMAIN failed_alerts :
             /\ failed_alerts[i].retry_count <= max_retries
             /\ Callbacks(i) <= max_retries)
    /\ [][\A i \in DOMAIN failed_alerts :
             failed_alerts[i].retry_count = max_retries
             => /\ failed_alerts'[i] = failed_alerts[i]
                /\ ~failed_alerts'[i].resolved
                /\ \A k \in DOMAIN retried' : k > Len(retried)
                                              => retried'[k] # i]_vars

\* A row used up its max_retries callbacks, its last retry is older than
\* retry_delay, and a pass at this time called the callback for another row
\* but not for it.
C20_Witness ==
    \E i \in DOMAIN failed_alerts :
        /\ failed_alerts[i].retry_count = max_retries
        /\ ~failed_alerts[i].resolved
        /\ Callbacks(i) = max_retries
        /\ now - failed_alerts[i].last_retry > retry_delay_minutes * 60
        /\ Len(retried) > 0
        /\ retried[Len(retried)] # i
        /\ notified[Len(notified)].time = now

\* ---------------------------------------------------------------------------
\* Listings of one retailer check (Spec).
\* ---------------------------------------------------------------------------

\* The coroutines for product id that have read the stored row and have not
\* yet written theirs (a suppressed one returns without writing).
Unsaved(id) ==
    {t \in Tasks : /\ t.product[1].id = id
                   /\ t.pc \in {"should_send_alert", "save_alert", "send_alert",
                                "mark_alert_sent", "save_product"}}

\* C27: listings are processed one after another: when a second observation
\* of a product id reads the stored row, the first observation has already
\* saved its Product, so never two coroutines for one id have read and not
\* yet saved.
C27_SaveBeforeNextRead ==
    \A id \in Pids :
        /\ Cardinality(Unsaved(id)) <= 1
        /\ \A t \in Unsaved(id) : CopiesIn(t, tasks) = 1

\* ---------------------------------------------------------------------------
\* Concurrent requests on one scraper (SpecRequest).
\* ---------------------------------------------------------------------------

\* The arrows of the three-state machine.
BreakerArrows ==
    {<<CLOSED, OPEN>>, <<OPEN, HALF_OPEN>>, <<HALF_OPEN, CLOSED>>,
     <<HALF_OPEN, OPEN>>}

\* C28: under any interleaving of the requests on one scraper the breaker
\* changes state only along CLOSED to OPEN, OPEN to HALF_OPEN, HALF_OPEN to
\* CLOSED and HALF_OPEN to OPEN: never OPEN to CLOSED, never CLOSED to
\* HALF_OPEN.
C28_BreakerArrowsOnly ==
    [][breaker'.state # breaker.state
         => <<breaker.state, breaker'.state>> \in BreakerArrows]_vars

\* This step returns from _apply_rate_limit: a frame that has just been
\* through the rate limiter enters its first session.get.
RateLimitReturns ==
    \E q \in BagToSet(requests') :
        /\ q.pc = "get" /\ q.attempt = 0 /\ q.acquired = 1
        /\ CopiesIn(q, requests') > CopiesIn(q, requests)

\* C29: whatever number of tasks call _apply_rate_limit on one scraper, two
\* consecutive returns from it are at least REQUEST_DELAY_MIN seconds apart
\* (_last_request_time holds the time of the previous return).
C29_ReturnsSpaced ==
    [][RateLimitReturns /\ last_request_time # NoTime
         => now - last_request_time >= REQUEST_DELAY_MIN]_vars

\* ---------------------------------------------------------------------------
\* Listings on a failing database (SpecStorage).
\* ---------------------------------------------------------------------------

\* The except clause of a coroutine has run in this step.
Fails ==
    \E f \in BagToSet(tasks') :
        f.pc = "failed" /\ CopiesIn(f, tasks') > CopiesIn(f, tasks)

\* The callback has raised in this step.
CallbackRaises ==
    /\ Len(notified') = Len(notified) + 1
    /\ notified'[Len(notified')].outcome = "raise"

\* C24: an exception from storage or from the notification callback never
\* leaves _process_product: the coroutine whose database call raised logs it
\* and returns, the one whose callback raised goes on to mark_alert_sent,
\* and in both cases every other coroutine of the check keeps its frame and
\* stays in flight.
C24_ErrorsIsolated ==
    /\ [](\A t \in Tasks : t.pc # "raised")
    /\ [][(Fails \/ CallbackRaises) =>
            \E t \in Tasks \cup {IdleTask} :
                /\ (tasks (-) SetToBag({t})) \sqsubseteq tasks'
                /\ BagCardinality(tasks') >= BagCardinality(tasks)
                /\ CallbackRaises =>
                     /\ t.pc = "send_alert"
                     /\ tasks' = Becomes(t, [t EXCEPT !.outcome = "raise",
                                                      !.pc = "mark_alert_sent"])]_vars

\* One coroutine has just failed on the database with its alert built, next
\* to a sibling whose callback raised and that has reached its last await.
C24_Witness ==
    \E t, u \in Tasks :
        /\ t.pc = "failed"
        /\ t.alert # <<>>
        /\ u.pc = "save_stock_history"
        /\ u.outcome = "raise"

\* ---------------------------------------------------------------------------
\* The products table (SpecProducts).
\* ---------------------------------------------------------------------------

\* C26: after any sequence of save_product calls, get_product(id) returns a
\* product equal in every field to the one last saved under that id (a null
\* price included), the table holds exactly one row for that id, and an id
\* never saved has no row and get_product returns none for it.
C26_RoundTrip ==
    \A id \in StoreIds :
        /\ select_product(id) = last_saved[id]
        /\ Cardinality({r \in product_rows : r.id = id})
             = IF last_saved[id] = <<>> THEN 0 ELSE 1

\* Some cycle that start() ran has run to its end.
StartCycleDone == \E i \in CyclesOf("start") : cycles[i].pc = "done"

\* C21: start() moves a stopped scheduler to running (not running before the
\* call, running from the call until stop() is called); it runs one full
\* check cycle before the loop waits for the first time, and when it has
\* ended the loop exists as a background task.
C21_StartCycleThenLoop ==
    /\ start_call.calls = 0 => ~running
    /\ (start_call.calls > 0 /\ stop_call.calls = 0) => running
    /\ monitoring_task.pc # "none" => StartCycleDone
    /\ start_call.pc \in {"done", "raised"} =>
            (StartCycleDone /\ monitoring_task.pc # "none")

\* stop() has returned and start() has not been called since.
Stopped == stop_call.pc = "done" /\ ~running

\* The retailer checks of cycle i that have not ended.
Unfinished(i) ==
    {r \in Retailers : cycles[i].tasks[r] \in {"running", "cancelling"}}

\* C22: when stop() has returned the loop task has finished, no cycle
\* started by the loop is still running, neither its frame nor the retailer
\* checks it launched, and the loop starts no further cycle, at whatever
\* point of start() or of the loop stop() was called.
C22_StoppedAfterStop ==
    /\ [](Stopped =>
            /\ monitoring_task.pc \in {"none", "done"}
            /\ \A i \in CyclesOf("loop") :
                    cycles[i].pc # "await" /\ Unfinished(i) = {})
    /\ [][Stopped => CyclesOf("loop")' = CyclesOf("loop")]_vars

\* The retailer checks, over all cycles, that were counted as `how`.
Counted(how) ==
    {<<i, r>> \in (DOMAIN cycles) \X Retailers : cycles[i].counted[r] = how}

LoopCycleRaised ==
    /\ Len(cycles') = Len(cycles) + 1
    /\ cycles'[Len(cycles')].owner = "loop"
    /\ cycles'[Len(cycles')].pc = "raised"

\* The loop sleeps after an error, the scheduler is running, and the clock of
\* the run reaches the end of the sleep of CHECK_INTERVAL that follows.
SleepsAfterError ==
    /\ running
    /\ monitoring_task.pc = "error_sleep"
    /\ monitoring_task.wake + CHECK_INTERVAL <= MaxLifeTime

\* C25: an exception that leaves a cycle of the loop is recorded in the
\* stats and the loop sleeps for 60 seconds; only stop() ends that sleep
\* early or ends the loop; and as long as the scheduler stays running the
\* loop starts a later cycle.
C25_LoopSurvivesError ==
    /\ [][LoopCycleRaised =>
            /\ stats'.errors = stats.errors + 1
            /\ monitoring_task'.pc = "error_sleep"
            /\ monitoring_task'.wake = now + ERROR_RETRY_INTERVAL]_vars
    /\ [][(monitoring_task.pc = "error_sleep"
                /\ monitoring_task'.pc # "error_sleep") =>
            \/ monitoring_task.cancelling
            \/ (now >= monitoring_task.wake /\ running
                    /\ monitoring_task'.pc = "sleep")]_vars
    /\ \A n \in 1..(MaxStarts + MaxLifeTime \div ERROR_RETRY_INTERVAL) :
            (SleepsAfterError /\ Len(cycles) = n)
                ~> (~running \/ Len(cycles) > n)

\* The scheduler is still running, a cycle of the loop raised, the error was
\* recorded, and the loop has started a cycle after it.
C25_Witness ==
    /\ running
    /\ stats.errors > 0
    /\ \E i, j \in CyclesOf("loop") : i < j /\ cycles[i].pc = "raised"

\* The retailers whose checks a cycle launches.
EnabledRetailers == {r \in Retailers : retailers[r] = Enabled}

\* C30: when stop() has returned, every cycle counted in total_checks has
\* each enabled retailer counted once, as a successful or as a failed check.
C30_NoPartialCycle ==
    Stopped =>
        /\ stats.total_checks = Len(cycles)
        /\ stats.successful_checks + stats.failed_checks
                = stats.total_checks * Cardinality(EnabledRetailers)
        /\ \A i \in DOMAIN cycles : \A r \in EnabledRetailers :
                cycles[i].counted[r] # "none"

\* C31: a retailer check in which a search raised is counted as a failed
\* check, never as a successful one, once the cycle has awaited it.
C31_SearchErrorIsFailedCheck ==
    \A i \in DOMAIN cycles : \A r \in Retailers :
        cycles[i].tasks[r] = "logged" =>
            /\ cycles[i].counted[r] # "ok"
            /\ cycles[i].pc = "done" => cycles[i].counted[r] = "failed"

\* C32: whenever the scheduler saves an alert row, the products table holds
\* a row with the alert's product id at that moment.
C32_AlertHasProductRow ==
    [][Len(alerts') > Len(alerts) =>
            /\ Len(alerts') = Len(alerts) + 1
            /\ products[alerts'[Len(alerts')].product_id] # <<>>
            /\ products[alerts'[Len(alerts')].product_id][1].id
                    = alerts'[Len(alerts')].product_id]_vars

\* A coroutine of this run has saved an alert and the product's row is there.
C32_Witness ==
    /\ \E t \in Tasks : t.emitted # <<>>
    /\ alerts # <<>>
    /\ products[alerts[Len(alerts)].product_id] # <<>>

\* A step of a retry pass: the callback was invoked or a row of the queue
\* was rewritten.
RetryPass ==
    \/ retried' # retried
    \/ Len(failed_alerts') = Len(failed_alerts) /\ failed_alerts' # failed_alerts

\* C33: a retry pass rewrites nothing but resolved, retry_count and
\* last_retry of failed_alerts rows; the products, alerts and stock_history
\* tables and the alert counter are as before; and it calls back for every
\* retryable row whose product exists, whether or not the product's alert
\* cooldown is running.
C33_RetryOnlyResends ==
    [][RetryPass =>
        /\ products' = products
        /\ alerts' = alerts
        /\ stock_history' = stock_history
        /\ alerts_sent' = alerts_sent
        /\ DOMAIN failed_alerts' = DOMAIN failed_alerts
        /\ \A i \in DOMAIN failed_alerts :
                [failed_alerts'[i] EXCEPT
                    !.resolved = failed_alerts[i].resolved,
                    !.retry_count = failed_alerts[i].retry_count,
                    !.last_retry = failed_alerts[i].last_retry]
                  = failed_alerts[i]
        /\ retried' = retried \o SelectSeq(get_retryable_alerts,
                LAMBDA i : products[failed_alerts[i].product_id] # <<>>)]_vars

\* The retry manager has just called back for a product whose cooldown is
\* running, with alert and history rows in the tables.
C33_Witness ==
    /\ alerts # <<>>
    /\ stock_history # <<>>
    /\ ~should_send_alert("A", ALERT_COOLDOWN)
    /\ \E k \in DOMAIN notified :
            /\ notified[k].by = "retry"
            /\ notified[k].product_id = "A"
            /\ notified[k].time = now
            /\ k > 2

\* The rows of stock_history older than `days` days, and the others.
Old(days) ==
    {i \in DOMAIN stock_history :
        stock_history[i].timestamp < now - days * SecondsPerDay}

Recent(days) ==
    SelectSeq(stock_history,
              LAMBDA row : row.timestamp >= now - days * SecondsPerDay)

\* C34: a step that removes history rows or returns a count is a
\* cleanup_old_history(days): it removes exactly the rows older than now
\* minus days, returns their number and leaves the newer rows, the products
\* and the alerts as they were; every other step keeps all history rows and
\* only appends; and no step removes a products row.
C34_OnlyCleanupDeletes ==
    /\ [][(deleted' # deleted \/ Len(stock_history') < Len(stock_history)) =>
            \E days \in Days :
                /\ stock_history' = Recent(days)
                /\ deleted' = Cardinality(Old(days))
                /\ products' = products
                /\ alerts' = alerts]_vars
    /\ [][(deleted' = deleted /\ Len(stock_history') >= Len(stock_history)) =>
            SubSeq(stock_history', 1, Len(stock_history)) = stock_history]_vars
    /\ [][\A id \in Pids : products[id] # <<>> => products'[id] # <<>>]_vars

\* A cleanup has removed the two oldest rows and kept the row stamped exactly
\* at the cutoff, next to rows a coroutine wrote since.
C34_Witness ==
    /\ deleted = 2
    /\ \E i \in DOMAIN stock_history :
            stock_history[i].timestamp = now - SecondsPerDay
    /\ \E i \in DOMAIN stock_history :
            stock_history[i].timestamp >= RetentionDays * SecondsPerDay
    /\ products["A"] # <<>>

\* C35: after any number of add_error calls the list has the last
\* min(calls, max_errors) errors, oldest first, and the status snapshot shows
\* the last min(calls, 10) of them, oldest first.
C35_ErrorRing ==
    LET shown == recent_errors(errors)
    IN  /\ Len(errors) <= max_errors
        /\ Len(errors) = IF nerrors < max_errors THEN nerrors ELSE max_errors
        /\ \A k \in DOMAIN errors : errors[k] = nerrors - Len(errors) + k
        /\ Len(shown) <= recent_shown
        /\ Len(shown) = IF nerrors < recent_shown THEN nerrors
                        ELSE recent_shown
        /\ \A k \in DOMAIN shown : shown[k] = nerrors - Len(shown) + k

\* More than max_errors errors were added and the list is full.
C35_Witness ==
    /\ nerrors > max_errors + 1
    /\ Len(errors) = max_errors
    /\ errors[1] = nerrors - max_errors + 1
    /\ Len(recent_errors(errors)) = recent_shown

\* An alert row goes from sent = 0 to sent = 1, or alerts_sent grows.
MarkedSent ==
    \/ alerts_sent' > alerts_sent
    \/ \E i \in DOMAIN alerts : ~alerts[i].sent /\ alerts'[i].sent

\* C36: an alert row is marked sent and alerts_sent is incremented only by a
\* coroutine whose callback was invoked for that alert and returned True.
C36_SentOnlyOnSuccess ==
    [][MarkedSent =>
        \E t \in Tasks :
            /\ t.pc = "mark_alert_sent"
            /\ t.outcome = "ok"
            /\ ~alerts[t.alert_id].sent /\ alerts'[t.alert_id].sent
            /\ \E k \in DOMAIN notified :
                    /\ notified[k].outcome = "ok"
                    /\ notified[k].by = "dispatch"
                    /\ notified[k].product_id = alerts[t.alert_id].product_id
                    /\ notified[k].time >= alerts[t.alert_id].timestamp]_vars

\* The coroutines that have just returned on the cooldown.
Suppressed == {t \in Tasks : t.pc = "suppressed"}

\* C37: a restock suppressed by the cooldown stays to be announced: when an
\* in-stock observation returns on the cooldown the product is still stored
\* as out of stock, so that the following cycles see the restock again; and
\* an in-stock observation of a product read as out of stock whose cooldown
\* is over goes on to save its IN_STOCK alert.
C37_SuppressedRestockKept ==
    /\ [](\A t \in Suppressed :
            /\ products[t.product[1].id] # <<>>
            /\ ~products[t.product[1].id][1].in_stock)
    /\ [][\A t \in Tasks :
            (t.pc = "should_send_alert"
                /\ should_send_alert(t.product[1].id, ALERT_COOLDOWN)
                /\ CopiesIn(t, tasks') < CopiesIn(t, tasks))
            => \E u \in BagToSet(tasks') :
                    /\ u.pc = "save_alert"
                    /\ u.alert[1].alert_type = IN_STOCK
                    /\ u.product = t.product]_vars

\* ------------------------------- StockScheduler: start() called repeatedly
\* start() has no test of self.running or of self._monitoring_task: every
\* call runs a cycle and creates a loop task, and the assignment to
\* _monitoring_task drops the reference to the task created before.  No
\* retailer is enabled here, so a cycle awaits nothing and start() runs from
\* its call to its return in one step.

\* A loop task that _monitoring_task no longer refers to.  id: the number of
\* the start() call that replaced it; stops: the stop() calls made by then.
Orphan(task) ==
    [id |-> start_call.calls + 1, task |-> task, stops |-> stop_call.calls]

\* The loop tasks that are created and not done.
LoopTasks ==
    {o.task : o \in orphans} \cup
        (IF monitoring_task.pc \in {"none", "done"} THEN {}
         ELSE {monitoring_task})

\* How many loop tasks are alive.
AliveLoops ==
    Cardinality(orphans)
        + (IF monitoring_task.pc \in {"none", "done"} THEN 0 ELSE 1)

InitRestart ==
    /\ now = 0
    /\ SchedulerIdle
    /\ retried = <<>>
    /\ ScraperIdle
    /\ StoreIdle
    /\ OthersIdle
    /\ running = FALSE
    /\ monitoring_task = NoTask
    /\ start_call = NoCall
    /\ stop_call = NoCall
    /\ cycles = <<>>
    /\ stats = NoStats
    /\ retailers = [r \in Retailers |-> Disabled]

\* start(), whatever the scheduler is doing: running is set, the cycle runs,
\* and unless it raised a new loop task is created and assigned to
\* _monitoring_task; the task that was there stays alive unreferenced.
Restart(fault) ==
    /\ start_call.calls < MaxRestarts
    /\ LET res == StartCycle("start", fault, stats)
       IN  /\ running' = TRUE
           /\ stats' = res.stats
           /\ cycles' = Append(cycles, res.cycle)
           /\ start_call' = [pc |-> res.cycle.pc,
                             calls |-> start_call.calls + 1]
           /\ IF res.cycle.pc = "done"
              THEN /\ monitoring_task' = [NoTask EXCEPT !.pc = "created"]
                   /\ orphans' =
                        IF monitoring_task.pc \in {"none", "done"}
                        THEN orphans
                        ELSE orphans \cup {Orphan(monitoring_task)}
              ELSE UNCHANGED <<monitoring_task, orphans>>
    /\ UNCHANGED <<now, scheduler, retried, scraper, store, stop_call,
                   retailers, errors, nerrors, session, closed_sessions,
                   checks, deleted>>

\* The orphans after task o took a step to `next`; a task that is done is
\* no longer alive.
Stepped(o, next) ==
    IF next.pc = "done" THEN orphans \ {o}
    ELSE (orphans \ {o}) \cup {[o EXCEPT !.task = next]}

\* A loop task that was replaced runs like any loop task: nothing cancels
\* it, and it reads self.running, which a later start() set again.
OrphanStep(o, fault) ==
    /\ o \in orphans
    /\ IF o.task.cancelling
       THEN /\ ~fault
            /\ orphans' = Stepped(o, [NoTask EXCEPT !.pc = "done"])
            /\ UNCHANGED <<cycles, stats>>
       ELSE IF o.task.pc = "created"
       THEN /\ ~fault
            /\ orphans' = Stepped(o, LoopTop(running))
            /\ UNCHANGED <<cycles, stats>>
       ELSE IF o.task.pc = "error_sleep"
       THEN /\ ~fault
            /\ now >= o.task.wake
            /\ orphans' = Stepped(o, LoopTop(running))
            /\ UNCHANGED <<cycles, stats>>
       ELSE IF ~running
       THEN /\ ~fault
            /\ now >= o.task.wake
            /\ orphans' = Stepped(o, [NoTask EXCEPT !.pc = "done"])
            /\ UNCHANGED <<cycles, stats>>
       ELSE LET res == StartCycle("orphan", fault, stats)
            IN  /\ now >= o.task.wake
                /\ cycles' = Append(cycles, res.cycle)
                /\ stats' = IF res.cycle.pc = "raised"
                            THEN add_error(res.stats) ELSE res.stats
                /\ orphans' = Stepped(o, IF res.cycle.pc = "raised"
                                         THEN AfterError
                                         ELSE LoopTop(running))
    /\ UNCHANGED <<now, scheduler, retried, scraper, store, running,
                   monitoring_task, start_call, stop_call, retailers,
                   errors, nerrors, session, closed_sessions, checks,
                   deleted>>

\* Time passes up to the moment a sleeping loop task is due.
TickRestart ==
    /\ \E t \in LoopTasks :
            /\ t.pc \in {"sleep", "error_sleep"}
            /\ t.wake > now
            /\ t.wake <= MaxLifeTime
            /\ now' = t.wake
    /\ UNCHANGED <<scheduler, retried, others, scraper, store, lifecycle>>

NextRestart ==
    \/ \E fault \in BOOLEAN : Restart(fault)
    \/ \E fault \in BOOLEAN : LoopStep(fault)
    \/ \E o \in orphans, fault \in BOOLEAN : OrphanStep(o, fault)
    \/ Stop
    \/ StopAwaited
    \/ StopReturn
    \/ TickRestart

SpecRestart == InitRestart /\ [][NextRestart]_vars

\* stop() has returned since loop task o lost its reference.
StoppedSince(o) == stop_call.calls > o.stops /\ stop_call.pc = "done"

\* C38: whatever the order of the start() and stop() calls, at most one loop
\* task is alive at any time, and a loop task created before a stop() that
\* has returned starts no further cycle.
C38_OneLoopTask ==
    /\ [](AliveLoops <= 1)
    /\ [][\A o \in orphans :
            StoppedSince(o) => ~(\E fault \in BOOLEAN : OrphanStep(o, fault)
                                  /\ Len(cycles') > Len(cycles))]_vars

\* ------------------------- BaseScraper: one session, overlapping checks
\* Every _check_retailer enters `async with scraper` on the one scraper
\* object of its retailer.  The checks of a scheduled cycle and of a
\* force_check() that overlap are coroutines on the same object; each is
\* followed through one _make_request.  A ClientSession is named by the
\* number of the check that created it.  The server answers every request
\* with 200, and the pauses of the rate limit and of the backoff are points
\* where the other check may run.

\* A _check_retailer coroutine.  pc: entered, attempt (about to call
\* session.get), request (the GET is in flight), backoff, exit (leaving the
\* async with), closing (in await session.close()), done.  attempt: the
\* attempts that failed.  using: the session of the GET in flight.
\* result: none, response, skipped (breaker open), failed (None after all
\* attempts).
NewCheck ==
    [pc |-> "entered", attempt |-> 0, using |-> NoSession, result |-> "none"]

\* The rest of _make_request after an attempt failed: the backoff and the
\* next attempt, or record_failure() after the last one.
AfterFailure(f) ==
    IF f.attempt < RETRY_ATTEMPTS - 1
    THEN [check |-> [f EXCEPT !.pc = "backoff", !.attempt = @ + 1,
                              !.using = NoSession],
          breaker |-> breaker]
    ELSE [check |-> [f EXCEPT !.pc = "exit", !.attempt = @ + 1,
                              !.using = NoSession, !.result = "failed"],
          breaker |-> record_failure(breaker)]

InitSession ==
    /\ now = 0
    /\ SchedulerIdle
    /\ retried = <<>>
    /\ ScraperIdle
    /\ StoreIdle
    /\ OthersIdle
    /\ LifecycleIdle

\* async with scraper: __aenter__ assigns a new ClientSession to
\* self.session, whatever was there.
EnterCheck ==
    /\ Len(checks) < MaxChecks
    /\ checks' = Append(checks, NewCheck)
    /\ session' = Len(checks) + 1
    /\ UNCHANGED <<now, scheduler, retried, scraper, lifecycle, store, errors,
                   nerrors, orphans, closed_sessions, deleted>>

\* _make_request up to the rate limit: the breaker is asked.
BeginRequest(k) ==
    /\ checks[k].pc = "entered"
    /\ LET ce == can_execute(breaker)
       IN  /\ breaker' = ce.breaker
           /\ checks' = [checks EXCEPT ![k] =
                IF ce.result THEN [@ EXCEPT !.pc = "attempt"]
                ELSE [@ EXCEPT !.pc = "exit", !.result = "skipped"]]
    /\ UNCHANGED <<now, scheduler, retried, lifecycle, store, breaker_calls,
                   requests, last_request_time, nrequests, errors, nerrors,
                   orphans, session, closed_sessions, deleted>>

\* self.session.get(...): on None it raises AttributeError, on a closed
\* session RuntimeError, both caught by `except Exception`; otherwise the
\* request is sent on the session self.session refers to now.
Attempt(k) ==
    /\ checks[k].pc = "attempt"
    /\ IF session = NoSession \/ session \in closed_sessions
       THEN LET res == AfterFailure(checks[k])
            IN  /\ checks' = [checks EXCEPT ![k] = res.check]
                /\ breaker' = res.breaker
       ELSE /\ checks' = [checks EXCEPT ![k] =
                            [@ EXCEPT !.pc = "request", !.using = session]]
            /\ UNCHANGED breaker
    /\ UNCHANGED <<now, scheduler, retried, lifecycle, store, breaker_calls,
                   requests, last_request_time, nrequests, errors, nerrors,
                   orphans, session, closed_sessions, deleted>>

\* The answer (200) is due: on a session that was closed meanwhile the
\* connection is gone and the attempt ends in a ClientError; otherwise
\* record_success() and the response is returned.
Answer(k) ==
    /\ checks[k].pc = "request"
    /\ IF checks[k].using \in closed_sessions
       THEN LET res == AfterFailure(checks[k])
            IN  /\ checks' = [checks EXCEPT ![k] = res.check]
                /\ breaker' = res.breaker
       ELSE /\ checks' = [checks EXCEPT ![k] =
                            [@ EXCEPT !.pc = "exit", !.using = NoSession,
                                      !.result = "response"]]
            /\ breaker' = record_success(breaker)
    /\ UNCHANGED <<now, scheduler, retried, lifecycle, store, breaker_calls,
                   requests, last_request_time, nrequests, errors, nerrors,
                   orphans, session, closed_sessions, deleted>>

\* The sleep of the backoff is over.
Backoff(k) ==
    /\ checks[k].pc = "backoff"
    /\ checks' = [checks EXCEPT ![k].pc = "attempt"]
    /\ UNCHANGED <<now, scheduler, retried, scraper, lifecycle, store, errors,
                   nerrors, orphans, session, closed_sessions, deleted>>

\* __aexit__ up to its await: if self.session: await self.session.close()
ExitCheck(k) ==
    /\ checks[k].pc = "exit"
    /\ IF session # NoSession
       THEN /\ closed_sessions' = closed_sessions \cup {session}
            /\ checks' = [checks EXCEPT ![k].pc = "closing"]
       ELSE /\ checks' = [checks EXCEPT ![k].pc = "done"]
            /\ UNCHANGED closed_sessions
    /\ UNCHANGED <<now, scheduler, retried, scraper, lifecycle, store, errors,
                   nerrors, orphans, session, deleted>>

\* __aexit__ after close() returned: self.session = None
SessionNone(k) ==
    /\ checks[k].pc = "closing"
    /\ session' = NoSession
    /\ checks' = [checks EXCEPT ![k].pc = "done"]
    /\ UNCHANGED <<now, scheduler, retried, scraper, lifecycle, store, errors,
                   nerrors, orphans, closed_sessions, deleted>>

NextSession ==
    \/ EnterCheck
    \/ \E k \in DOMAIN checks : BeginRequest(k)
    \/ \E k \in DOMAIN checks : Attempt(k)
    \/ \E k \in DOMAIN checks : Answer(k)
    \/ \E k \in DOMAIN checks : Backoff(k)
    \/ \E k \in DOMAIN checks : ExitCheck(k)
    \/ \E k \in DOMAIN checks : SessionNone(k)

SpecSession == InitSession /\ [][NextSession]_vars

\* C39: while a request of a check is in flight the session is neither None
\* nor closed, and with a server that answers 200 no attempt of a check
\* fails and record_failure() is never called, overlapping checks or not.
C39_OverlapKeepsSession ==
    \A k \in DOMAIN checks :
        /\ checks[k].pc = "request" =>
                /\ session # NoSession
                /\ checks[k].using \notin closed_sessions
        /\ checks[k].attempt = 0
        /\ checks[k].result # "failed"

====
